---- MODULE Spec2Model ----
(***************************************************************************)
(* Model of sheshmfs.py: the beta / alpha / risk-metrics calculation of    *)
(* the Streamlit dashboard (calculate_returns, calculate_beta and the      *)
(* metric code of the portfolio tab and of the mutual-fund tab).           *)
(*                                                                         *)
(* Numbers.  Floats are modelled by exact values:                          *)
(*   a number is <<n, d>> with d > 0 (the rational n/d, in lowest terms),  *)
(*   NaN is <<0, 0>>, Python's None is <<>>;                               *)
(*   a value that comes out of a square root is <<s, n, d>>, standing for  *)
(*   s * sqrt(n/d) with s in {-1, 0, 1}; its NaN is <<0, 0, 0>>.           *)
(* A series is [freq, tz, rows]: rows is a sequence of [ts, v] (the pandas  *)
(* index value as a wall-clock date and the value), freq the sampling      *)
(* frequency of the index ("D" daily, "M" month-end), tz its time zone.    *)
(***************************************************************************)
EXTENDS Integers, Sequences, FiniteSets, TLC

\* ------------------------------------------------------------------ bounds
MaxT == 12          \* timestamps of the pure-function inputs are 1..MaxT
MaxVal == 1         \* return values of the pure-function inputs are 0..MaxVal
MaxDay == 12        \* the portfolio tab's analysis period is the days 1..MaxDay
MaxMonth == 12      \* the mutual-fund tab's analysis period is the months 1..MaxMonth
DaysPerMonth == 2   \* trading days in a month
MaxStocks == 2      \* the "Number of stocks" widget is 1..MaxStocks
MaxPrices == 4      \* price series handed to calculate_returns have 1..MaxPrices rows
MaxCalls == 3       \* calls of the calculator in progress at the same time
MaxLines == 3       \* uploaded files have 0..MaxLines lines
NavMonths == 2      \* the NAV history of a fund covers the months 1..NavMonths

\* ------------------------------------------------------- program constants
MIN_SAMPLES == 10           \* len(merged) < 10
RISK_FREE == 5              \* (mean_return - 5)
DAILY_PERIODS == 252        \* * 252, np.sqrt(252)
MONTHLY_PERIODS == 12       \* * 12, np.sqrt(12)
LOW_BETA == <<4, 5>>        \* beta < 0.8
HIGH_BETA == <<6, 5>>       \* beta < 1.2

\* ------------------------------------------------------------- arithmetic
None == <<>>
NaN == <<0, 0>>
NaNRoot == <<0, 0, 0>>
IsNone(x) == x = None
IsNaN(x) == Len(x) = 2 /\ x[2] = 0

Abs(i) == IF i < 0 THEN -i ELSE i
Sign(i) == IF i < 0 THEN -1 ELSE IF i > 0 THEN 1 ELSE 0

RECURSIVE GCD(_, _)
GCD(a, b) == IF b = 0 THEN a ELSE GCD(b, a % b)

\* the rational n/d (d # 0) in lowest terms with a positive denominator
Rat(n, d) ==
    LET g == GCD(Abs(n), Abs(d))
        s == IF d < 0 THEN -1 ELSE 1
    IN  <<(s * n) \div g, (s * d) \div g>>

Num(i) == <<i, 1>>
\* common factors are cancelled before multiplying, as the products of
\* uncancelled terms leave the integer range of the model checker
RAdd(x, y) ==
    LET g == GCD(x[2], y[2])
    IN  Rat(x[1] * (y[2] \div g) + y[1] * (x[2] \div g), (x[2] \div g) * y[2])
RNeg(x) == <<-x[1], x[2]>>
RSub(x, y) == RAdd(x, RNeg(y))
RMul(x, y) ==
    LET g1 == GCD(Abs(x[1]), y[2])
        g2 == GCD(Abs(y[1]), x[2])
    IN  <<(x[1] \div g1) * (y[1] \div g2), (x[2] \div g2) * (y[2] \div g1)>>
\* float division: x / 0 is nan (0/0) or +-inf; both are modelled as NaN
RDiv(x, y) ==
    IF y[1] = 0 THEN NaN ELSE RMul(x, <<Sign(y[1]) * y[2], Abs(y[1])>>)
RLt(x, y) == x[1] * y[2] < y[1] * x[2]
RIsZero(x) == x[1] = 0

\* s * sqrt(n/d)
Root(s, q) ==
    IF IsNaN(q) THEN NaNRoot
    ELSE IF s = 0 \/ q[1] = 0 THEN <<0, 0, 1>> ELSE <<s, q[1], q[2]>>
\* v ** 2
RootSq(v) == IF v[1] = 0 THEN Num(0) ELSE <<v[2], v[3]>>
\* v > 0 (False for NaN)
RootGt0(v) == v[1] = 1
\* v * np.sqrt(k)
RootMulSqrt(v, k) == IF v = NaNRoot THEN NaNRoot ELSE Root(v[1], RMul(RootSq(v), Num(k)))
\* q / v (NaN when v is 0 or NaN)
RDivRoot(q, v) ==
    IF v = NaNRoot THEN NaNRoot
    ELSE Root(Sign(q[1]) * v[1], RDiv(RMul(q, q), RootSq(v)))

\* ----------------------------------------------------------------- series
Row(t, x) == [ts |-> t, v |-> x]
\* an index without a time zone (index.tz is None), and the zone yfinance
\* gives its price histories
NAIVE == "naive"
KOLKATA == "Asia/Kolkata"
Series(f, rs) == [freq |-> f, tz |-> NAIVE, rows |-> rs]

TsOf(rs) == {rs[i].ts : i \in 1..Len(rs)}
\* the value rs carries at timestamp t (timestamps are unique)
At(rs, t) == LET i == CHOOSE j \in 1..Len(rs) : rs[j].ts = t IN rs[i].v

\* series.dropna()
DropNaRows(rs) == SelectSeq(rs, LAMBDA r : ~IsNaN(r.v))

RECURSIVE SumV(_)
SumV(vs) == IF vs = <<>> THEN Num(0) ELSE RAdd(Head(vs), SumV(Tail(vs)))

Values(rs) == [i \in 1..Len(rs) |-> rs[i].v]

\* series.mean(): NaN is skipped, the mean of nothing is NaN
Mean(rs) ==
    LET vs == Values(DropNaRows(rs))
    IN  IF vs = <<>> THEN NaN ELSE RDiv(SumV(vs), Num(Len(vs)))

\* the mean of a sequence of numbers (np.mean)
MeanV(vs) == RDiv(SumV(vs), Num(Len(vs)))

\* the population variance (divisor n) in place of the sample variance
SampleVar_Population(rs) ==
    LET vs == Values(DropNaRows(rs))
        m == MeanV(vs)
        sq == [i \in 1..Len(vs) |-> RMul(RSub(vs[i], m), RSub(vs[i], m))]
    IN  IF Len(vs) < 2 THEN NaN ELSE RDiv(SumV(sq), Num(Len(vs)))

\* series.std(): sample standard deviation (ddof = 1), NaN is skipped,
\* NaN when fewer than two values
SampleVar(rs) ==
    LET vs == Values(DropNaRows(rs))
        m == MeanV(vs)
        sq == [i \in 1..Len(vs) |-> RMul(RSub(vs[i], m), RSub(vs[i], m))]
    IN  IF Len(vs) < 2 THEN NaN ELSE RDiv(SumV(sq), Num(Len(vs) - 1))

Std(rs) ==
    LET var == SampleVar(rs)
    IN  IF IsNaN(var) THEN NaNRoot ELSE Root(1, var)

\* ------------------------------------------------------- calculate_returns
RECURSIVE PctChange_OverCurrent(_, _)
\* a percentage change that divides by the current price
PctChange_OverCurrent(rs, prev) ==
    IF rs = <<>> THEN <<>>
    ELSE LET p == Head(rs).v
             r == IF IsNone(prev) THEN NaN
                  ELSE LET q == RDiv(RSub(p, prev), p)
                       IN  IF IsNaN(q) THEN NaN ELSE RMul(q, Num(100))
         IN  <<Row(Head(rs).ts, r)>> \o PctChange_OverCurrent(Tail(rs), p)

RECURSIVE PctChange(_, _)
\* prices.pct_change() * 100 on positive prices without NaN: the first row
\* has no predecessor (NaN), every other row carries
\* (p[i] - p[i-1]) / p[i-1] * 100
PctChange(rs, prev) ==
    IF rs = <<>> THEN <<>>
    ELSE LET p == Head(rs).v
             r == IF IsNone(prev) THEN NaN
                  ELSE LET q == RDiv(RSub(p, prev), prev)
                       IN  IF IsNaN(q) THEN NaN ELSE RMul(q, Num(100))
         IN  <<Row(Head(rs).ts, r)>> \o PctChange(Tail(rs), p)

\* index.tz_localize(None): the zone is dropped, every index value keeps its
\* wall-clock date
TzLocalizeNone(s) == [s EXCEPT !.tz = NAIVE]

calculate_returns(prices) ==
    LET returns == [prices EXCEPT !.rows = DropNaRows(PctChange(prices.rows, None))]
    IN  IF returns.tz # NAIVE THEN TzLocalizeNone(returns) ELSE returns

\* ---------------------------------------------------------- calculate_beta
RECURSIVE JoinInner_ByPosition(_, _)
\* a join that pairs the rows of the two frames by position
JoinInner_ByPosition(left, right) ==
    IF left = <<>> \/ right = <<>> THEN <<>>
    ELSE <<[ts |-> Head(left).ts, returns |-> Head(left).v,
            benchmark |-> Head(right).v]>>
         \o JoinInner_ByPosition(Tail(left), Tail(right))

RECURSIVE JoinInner_Reversed(_, _)
\* a join that lists the matching rows from the last to the first
JoinInner_Reversed(left, right) ==
    IF left = <<>> THEN <<>>
    ELSE LET l == Head(left)
         IN  IF l.ts \in TsOf(right)
             THEN JoinInner_Reversed(Tail(left), right)
                  \o <<[ts |-> l.ts, returns |-> l.v, benchmark |-> At(right, l.ts)]>>
             ELSE JoinInner_Reversed(Tail(left), right)

RECURSIVE JoinInner(_, _)
\* returns_df.join(benchmark_df, how='inner') on a unique index: the rows of
\* the left frame whose index value is also in the right frame, in the left
\* frame's order, each with the right frame's value at the same index value
JoinInner(left, right) ==
    IF left = <<>> THEN <<>>
    ELSE LET l == Head(left)
         IN  IF l.ts \in TsOf(right)
             THEN <<[ts |-> l.ts, returns |-> l.v, benchmark |-> At(right, l.ts)]>>
                  \o JoinInner(Tail(left), right)
             ELSE JoinInner(Tail(left), right)

\* merged.dropna()
DropNaMerged(m) == SelectSeq(m, LAMBDA r : ~IsNaN(r.returns) /\ ~IsNaN(r.benchmark))

\* a regression that divides by the zero variance of a constant x instead
\* of raising
linregress_NoRaise(x, y) ==
    LET n == Len(x)
        xmean == MeanV(x)
        ymean == MeanV(y)
        ssxm == MeanV([i \in 1..n |-> RMul(RSub(x[i], xmean), RSub(x[i], xmean))])
        ssxym == MeanV([i \in 1..n |-> RMul(RSub(x[i], xmean), RSub(y[i], ymean))])
        ssym == MeanV([i \in 1..n |-> RMul(RSub(y[i], ymean), RSub(y[i], ymean))])
        r == IF RIsZero(ssxm) \/ RIsZero(ssym) THEN Root(0, Num(0))
             ELSE Root(Sign(ssxym[1]), RDiv(RMul(ssxym, ssxym), RMul(ssxm, ssym)))
    IN  [raised |-> FALSE, slope |-> RDiv(ssxym, ssxm), r_value |-> r]

\* a regression whose r is the positive root of r squared
linregress_UnsignedR(x, y) ==
    LET n == Len(x)
        xmean == MeanV(x)
        ymean == MeanV(y)
        ssxm == MeanV([i \in 1..n |-> RMul(RSub(x[i], xmean), RSub(x[i], xmean))])
        ssxym == MeanV([i \in 1..n |-> RMul(RSub(x[i], xmean), RSub(y[i], ymean))])
        ssym == MeanV([i \in 1..n |-> RMul(RSub(y[i], ymean), RSub(y[i], ymean))])
        rsq == RDiv(RMul(ssxym, ssxym), RMul(ssxm, ssym))
        r == IF RIsZero(ssxm) \/ RIsZero(ssym) THEN Root(0, Num(0))
             ELSE IF RLt(Num(1), rsq) THEN Root(1, Num(1))
             ELSE Root(Abs(Sign(ssxym[1])), rsq)
    IN  IF \A i \in 1..n : x[i] = x[1]
        THEN [raised |-> TRUE, slope |-> None, r_value |-> None]
        ELSE [raised |-> FALSE, slope |-> RDiv(ssxym, ssxm), r_value |-> r]

\* scipy.stats.linregress(x, y): raises ValueError when all x are identical;
\* otherwise slope = ssxym / ssxm and r = ssxym / sqrt(ssxm * ssym), r = 0
\* when ssym = 0, clipped to [-1, 1]
linregress(x, y) ==
    LET n == Len(x)
        xmean == MeanV(x)
        ymean == MeanV(y)
        ssxm == MeanV([i \in 1..n |-> RMul(RSub(x[i], xmean), RSub(x[i], xmean))])
        ssxym == MeanV([i \in 1..n |-> RMul(RSub(x[i], xmean), RSub(y[i], ymean))])
        ssym == MeanV([i \in 1..n |-> RMul(RSub(y[i], ymean), RSub(y[i], ymean))])
        rsq == RDiv(RMul(ssxym, ssxym), RMul(ssxm, ssym))
        r == IF RIsZero(ssxm) \/ RIsZero(ssym) THEN Root(0, Num(0))
             ELSE IF RLt(Num(1), rsq) THEN Root(Sign(ssxym[1]), Num(1))
             ELSE Root(Sign(ssxym[1]), rsq)
    IN  IF \A i \in 1..n : x[i] = x[1]
        THEN [raised |-> TRUE, slope |-> None, r_value |-> None]
        ELSE [raised |-> FALSE, slope |-> RDiv(ssxym, ssxm), r_value |-> r]

\* the outcome of one call: what was returned (beta, r_squared, correlation;
\* None on failure), the frame the regression ran on, whether the regression
\* was called, and the message shown ("none", "warning", "error")
BetaOutcome(b, r2, c, m, ran, msg) ==
    [beta |-> b, r_squared |-> r2, correlation |-> c,
     merged |-> m, regressed |-> ran, shown |-> msg]

\* len(returns) < 2 or len(benchmark_returns) < 2
TooShort(returns, benchmark_returns) ==
    Len(returns.rows) < 2 \/ Len(benchmark_returns.rows) < 2

\* a floor that also refuses exactly 10 rows
TooFew_Inclusive(merged) == Len(merged) <= MIN_SAMPLES

\* len(merged) < 10
TooFew(merged) == Len(merged) < MIN_SAMPLES

\* the regression with the two columns exchanged
RegressionArgs_Swapped(merged) ==
    [x |-> [i \in 1..Len(merged) |-> merged[i].returns],
     y |-> [i \in 1..Len(merged) |-> merged[i].benchmark]]

\* the arguments of the regression: x = merged['benchmark'].values,
\* y = merged['returns'].values
RegressionArgs(merged) ==
    [x |-> [i \in 1..Len(merged) |-> merged[i].benchmark],
     y |-> [i \in 1..Len(merged) |-> merged[i].returns]]

\* beta = slope
BetaOf(reg) == reg.slope
\* r_squared = r_value ** 2 * 100, the percentage the tabs display
RSquaredOf_Percent(reg) == RMul(RootSq(reg.r_value), Num(100))

\* r_squared = r_value ** 2
RSquaredOf(reg) == RootSq(reg.r_value)
\* correlation = r_value ** 2
CorrelationOf_Squared(reg) ==
    Root(Abs(reg.r_value[1]), RMul(RootSq(reg.r_value), RootSq(reg.r_value)))

\* correlation = r_value
CorrelationOf(reg) == reg.r_value

calculate_beta(returns, benchmark_returns) ==
    IF TooShort(returns, benchmark_returns)
    THEN BetaOutcome(None, None, None, <<>>, FALSE, "none")
    ELSE LET merged == DropNaMerged(JoinInner(returns.rows, benchmark_returns.rows))
             args == RegressionArgs(merged)
             reg == linregress(args.x, args.y)
         IN  IF TooFew(merged)
             THEN BetaOutcome(None, None, None, merged, FALSE, "warning")
             ELSE IF reg.raised
                  THEN BetaOutcome(None, None, None, merged, TRUE, "error")
                  ELSE BetaOutcome(BetaOf(reg), RSquaredOf(reg), CorrelationOf(reg),
                                   merged, TRUE, "none")

\* ------------------------------------------------------------ tab metrics
NoMetrics ==
    [mean_return |-> None, mean_bench |-> None, alpha |-> None,
     volatility |-> None, sharpe_ratio |-> None]

\* portfolio tab: mean_return = portfolio_returns.mean() * 252
PortfolioMeanReturn(portfolio_rets) ==
    RMul(Mean(portfolio_rets.rows), Num(DAILY_PERIODS))
\* mean_bench = benchmark_returns.mean() * 252
PortfolioMeanBench(bench_rets) ==
    RMul(Mean(bench_rets.rows), Num(DAILY_PERIODS))
\* alpha = mean_return - (beta * mean_bench)
PortfolioAlpha(mean_return, mean_bench, beta) ==
    RSub(mean_return, RMul(beta, mean_bench))
\* volatility = portfolio_returns.std() * np.sqrt(252)
PortfolioVolatility(portfolio_rets) ==
    RootMulSqrt(Std(portfolio_rets.rows), DAILY_PERIODS)
\* a Sharpe ratio that leaves the risk-free rate out
PortfolioSharpe_NoRiskFree(mean_return, volatility) ==
    IF RootGt0(volatility)
    THEN RDivRoot(mean_return, volatility)
    ELSE Root(0, Num(0))

\* sharpe_ratio = (mean_return - 5) / volatility if volatility > 0 else 0
PortfolioSharpe(mean_return, volatility) ==
    IF RootGt0(volatility)
    THEN RDivRoot(RSub(mean_return, Num(RISK_FREE)), volatility)
    ELSE Root(0, Num(0))

PortfolioMetrics(portfolio_rets, bench_rets, beta) ==
    LET mean_return == PortfolioMeanReturn(portfolio_rets)
        mean_bench == PortfolioMeanBench(bench_rets)
        volatility == PortfolioVolatility(portfolio_rets)
    IN  [mean_return |-> mean_return, mean_bench |-> mean_bench,
         alpha |-> PortfolioAlpha(mean_return, mean_bench, beta),
         volatility |-> volatility,
         sharpe_ratio |-> PortfolioSharpe(mean_return, volatility)]

\* mutual-fund tab: mean_return = nav_returns_monthly.mean() * 12
MFMeanReturn(nav_rets_monthly) ==
    RMul(Mean(nav_rets_monthly.rows), Num(MONTHLY_PERIODS))
\* the monthly benchmark mean annualised with the daily factor
MFMeanBench_Daily(bench_rets_monthly) ==
    RMul(Mean(bench_rets_monthly.rows), Num(DAILY_PERIODS))

\* mean_bench = benchmark_returns_monthly.mean() * 12
MFMeanBench(bench_rets_monthly) ==
    RMul(Mean(bench_rets_monthly.rows), Num(MONTHLY_PERIODS))
\* alpha = mean_return - (beta * mean_bench)
MFAlpha(mean_return, mean_bench, beta) ==
    RSub(mean_return, RMul(beta, mean_bench))
\* volatility = nav_returns_monthly.std() * np.sqrt(12)
MFVolatility(nav_rets_monthly) ==
    RootMulSqrt(Std(nav_rets_monthly.rows), MONTHLY_PERIODS)
\* a Sharpe ratio that divides whatever the volatility is
MFSharpe_Unguarded(mean_return, volatility) ==
    RDivRoot(RSub(mean_return, Num(RISK_FREE)), volatility)

\* sharpe_ratio = (mean_return - 5) / volatility if volatility > 0 else 0
MFSharpe(mean_return, volatility) ==
    IF RootGt0(volatility)
    THEN RDivRoot(RSub(mean_return, Num(RISK_FREE)), volatility)
    ELSE Root(0, Num(0))

MFMetrics(nav_rets_monthly, bench_rets_monthly, beta) ==
    LET mean_return == MFMeanReturn(nav_rets_monthly)
        mean_bench == MFMeanBench(bench_rets_monthly)
        volatility == MFVolatility(nav_rets_monthly)
    IN  [mean_return |-> mean_return, mean_bench |-> mean_bench,
         alpha |-> MFAlpha(mean_return, mean_bench, beta),
         volatility |-> volatility,
         sharpe_ratio |-> MFSharpe(mean_return, volatility)]

\* boundaries closed on the wrong side: beta <= 0.8, beta <= 1.2
PortfolioRiskClass_Inclusive(beta) ==
    IF ~RLt(LOW_BETA, beta) THEN "low"
    ELSE IF ~RLt(HIGH_BETA, beta) THEN "moderate"
    ELSE "high"

\* portfolio tab: if beta < 0.8 / elif beta < 1.2 / else
PortfolioRiskClass(beta) ==
    IF RLt(beta, LOW_BETA) THEN "low"
    ELSE IF RLt(beta, HIGH_BETA) THEN "moderate"
    ELSE "high"

\* mutual-fund tab: if beta < 0.8 / elif beta < 1.2 / else
MFRiskClass(beta) ==
    IF RLt(beta, LOW_BETA) THEN "low"
    ELSE IF RLt(beta, HIGH_BETA) THEN "moderate"
    ELSE "high"

\* ------------------------------------------------- frames of the two tabs
Min(S) == CHOOSE x \in S : \A y \in S : x <= y
Max(S) == CHOOSE x \in S : \A y \in S : x >= y

RECURSIVE Ascending(_)
\* the elements of a set of timestamps as an increasing sequence
Ascending(S) == IF S = {} THEN <<>> ELSE <<Min(S)>> \o Ascending(S \ {Min(S)})

\* stock_returns * (stock['Allocation'] / 100)
Weighted(stock_returns, allocation) ==
    Series(stock_returns.freq,
           [i \in 1..Len(stock_returns.rows) |->
               Row(stock_returns.rows[i].ts,
                   RMul(stock_returns.rows[i].v, Rat(allocation, 100)))])

\* pd.concat(all_stock_returns, axis=1).sum(axis=1): one row per index value
\* of any of the series; a series without that index value contributes
\* nothing to the row's sum
ConcatSum(all_returns) ==
    LET idx == Ascending(UNION {TsOf(all_returns[k].rows) : k \in 1..Len(all_returns)})
        cell(k, t) == IF t \in TsOf(all_returns[k].rows)
                      THEN At(all_returns[k].rows, t) ELSE Num(0)
    IN  Series(all_returns[1].freq,
               [i \in 1..Len(idx) |->
                   Row(idx[i], SumV([k \in 1..Len(all_returns) |-> cell(k, idx[i])]))])

\* the month a day falls in, and the last day of a month
MonthOf(day, dpm) == ((day - 1) \div dpm) + 1
MonthEnd(month, dpm) == month * dpm

\* series.resample('M').last(): one row per month from the month of the
\* first row to the month of the last row, labelled with the month end,
\* carrying the last value of the month (NaN for a month without rows)
ResampleMonthlyLast(prices, dpm) ==
    IF prices.rows = <<>> THEN Series("M", <<>>)
    ELSE LET rs == prices.rows
             first == MonthOf(rs[1].ts, dpm)
             last == MonthOf(rs[Len(rs)].ts, dpm)
             inMonth(m) == {i \in 1..Len(rs) : MonthOf(rs[i].ts, dpm) = m}
             lastOf(m) == IF inMonth(m) = {} THEN NaN ELSE rs[Max(inMonth(m))].v
         IN  Series("M", [k \in 1..(last - first + 1) |->
                             Row(MonthEnd(first + k - 1, dpm), lastOf(first + k - 1))])

\* ------------------------------------------------------------------ state
VARIABLES
    pc,                         \* position of the script run
    stocks_data,                \* portfolio tab: the rows with a symbol and an allocation > 0
    benchmark_returns,          \* portfolio tab: calculate_returns(benchmark_df['Close'])
    idx,                        \* portfolio tab: stocks the loop has processed
    stock_betas,
    all_stock_returns,
    valid_stocks,
    portfolio_returns,
    nav_df,                     \* mutual-fund tab: the NAV frame of fetch_mf_nav
    nav_returns_monthly,
    benchmark_returns_monthly,
    result,                     \* beta, r_squared, correlation of the tab
    metrics,                    \* mean_return, mean_bench, alpha, volatility, sharpe_ratio
    risk_class,                 \* the risk box shown: "low", "moderate", "high" or "none"
    shown,                      \* the error and warning messages of the run
    events,                     \* the fetches, lookups and beta calculations of the run, in order
    progress,                   \* the value of the progress bar, None without a bar
    call,                       \* the latest call of calculate_beta: arguments and outcome
    rcall,                      \* the latest call of calculate_returns: argument and result
    procs,                      \* concurrent calls of calculate_beta: each call's frame
    fcall,                      \* the latest call of another function: argument and result
    session_state,              \* st.session_state: the keys set and their values
    trigger,                    \* the interaction that started the script run
    page,                       \* the charts, tables and input widgets on the page
    mf_scheme,                  \* mutual-fund tab: the AMFI code entered
    holdings_info               \* mutual-fund tab: the holdings the analysis uses

vars == <<pc, stocks_data, benchmark_returns, idx, stock_betas, all_stock_returns,
          valid_stocks, portfolio_returns, nav_df, nav_returns_monthly,
          benchmark_returns_monthly, result, metrics, risk_class, shown, events,
          progress, call, rcall, procs, fcall, session_state, trigger, page, mf_scheme, holdings_info>>

\* the variables of the calls made outside a script run
callVars == <<rcall, procs, fcall>>
\* what outlives a script run: the session and the page in the browser
sessionVars == <<session_state, trigger, page>>
\* the locals of the holdings section of the mutual-fund tab
holdingsVars == <<mf_scheme, holdings_info>>

NoOutcome == BetaOutcome(None, None, None, <<>>, FALSE, "none")
NoResult == [beta |-> None, r_squared |-> None, correlation |-> None]
NoCall == [returns |-> None, benchmark_returns |-> None, returned |-> FALSE,
           out |-> NoOutcome]
NoRCall == [prices |-> None, returned |-> FALSE, out |-> None]
NoProcs == <<>>
NoFCall == [fn |-> "none", arg |-> None, returned |-> FALSE, out |-> None]
NoKeys == <<>>
Call(r, b) == [returns |-> r, benchmark_returns |-> b, returned |-> TRUE,
               out |-> calculate_beta(r, b)]
ResultOf(out) == [beta |-> out.beta, r_squared |-> out.r_squared,
                  correlation |-> out.correlation]
\* the messages calculate_beta itself shows
CallShown(out) == IF out.shown = "warning" THEN {"warn_overlap"}
                  ELSE IF out.shown = "error" THEN {"err_regression"} ELSE {}

\* a script run starts with fresh locals
FreshLocals ==
    /\ stocks_data = <<>>
    /\ benchmark_returns = None
    /\ idx = 0
    /\ stock_betas = <<>>
    /\ all_stock_returns = <<>>
    /\ valid_stocks = <<>>
    /\ portfolio_returns = None
    /\ nav_df = None
    /\ nav_returns_monthly = None
    /\ benchmark_returns_monthly = None
    /\ result = NoResult
    /\ metrics = NoMetrics
    /\ risk_class = "none"
    /\ shown = {}
    /\ events = <<>>
    /\ progress = None
    /\ mf_scheme = ""
    /\ holdings_info = None

Init ==
    /\ pc = "idle"
    /\ FreshLocals
    /\ call = NoCall
    /\ rcall = NoRCall
    /\ procs = NoProcs
    /\ fcall = NoFCall
    /\ session_state = NoKeys
    /\ trigger = "none"
    /\ page = {}

\* ------------------------------------------------ what the network returns
EmptyFrame == Series("D", <<>>)

\* a daily price history over the days lo..hi: 100, and 100 + d from day s on
History(lo, hi, s, d) ==
    Series("D", [i \in 1..(hi - lo + 1) |->
                    Row(lo + i - 1,
                        Num(100 + (IF lo + i - 1 >= s THEN d ELSE 0)))])

\* a price history that lacks one day
Without(prices, day) ==
    Series(prices.freq, SelectSeq(prices.rows, LAMBDA r : r.ts # day))

\* stock.history(start, end) of a stock: nothing (None), or a history that
\* starts at the period's first day or later
StockFrames ==
    {None, EmptyFrame} \cup
    {History(lo, MaxDay, s, d) :
        lo \in {1, MaxDay - 10, MaxDay - 9}, s \in {5, 7}, d \in {0, 4, 5, 6, 10}}

\* index.history(start, end) of the benchmark over the portfolio tab's
\* period: nothing, a flat or a moving index, or a moving index without day 9
IndexFrames ==
    {None, EmptyFrame} \cup {History(1, MaxDay, 5, d) : d \in {0, 5}}
        \cup {Without(History(1, MaxDay, 5, 5), 9)}

LastDay == MaxMonth * DaysPerMonth

\* fetch_mf_nav: nothing, the current NAV only, or a daily NAV history
NavFrames ==
    {None, History(LastDay, LastDay, 1, 0)} \cup
    {History(1 + DaysPerMonth * (m - 1), LastDay, s, d) :
        m \in {1, MaxMonth - 10, MaxMonth - 9},
        s \in {4 * DaysPerMonth + 1, 5 * DaysPerMonth},
        d \in {0, 4, 5, 6, 10}}

\* index.history(start, end) of the benchmark over the fund tab's period:
\* nothing, or a flat or moving index from the first or the second month on
MFIndexFrames ==
    {None, EmptyFrame} \cup
    {History(1, LastDay, s, d) : s \in {5 * DaysPerMonth, 7 * DaysPerMonth}, d \in {0, 5}}
        \cup {History(1 + DaysPerMonth, LastDay, 5 * DaysPerMonth, 5)}

IsMissing(df) == IsNone(df) \/ df.rows = <<>>

\* the widget rows of the portfolio tab: a symbol (possibly empty) and an
\* allocation for each of the num_stocks rows
Symbols == <<"TCS", "INFY", "RELIANCE", "HDFCBANK">>
WidgetRows ==
    UNION {{rows \in [1..n -> [Symbol : {""} \cup {Symbols[i] : i \in 1..n},
                               Allocation : {0, 50, 100}]] :
               \A i \in 1..n : rows[i].Symbol \in {"", Symbols[i]}} :
              n \in 1..MaxStocks}

\* if symbol and allocation > 0: stocks_data.append(...)
StocksData(rows) == SelectSeq(rows, LAMBDA r : r.Symbol # "" /\ r.Allocation > 0)

RECURSIVE SumAllocation(_)
SumAllocation(sd) == IF sd = <<>> THEN 0 ELSE Head(sd).Allocation + SumAllocation(Tail(sd))

\* a check that also refuses a total of exactly 100
AllocationTooHigh_Inclusive(sd) == SumAllocation(sd) >= 100

\* sum([s["Allocation"] for s in stocks_data]) > 100
AllocationTooHigh(sd) == SumAllocation(sd) > 100

\* ------------------------------------------------------------ script runs
\* an initialisation that puts a record of results under the key
InitSessionState_ResultsDict(ss) ==
    IF "results" \in DOMAIN ss THEN ss
    ELSE [k \in DOMAIN ss \cup {"results"} |-> IF k = "results" THEN NoResult ELSE ss[k]]

\* if 'results' not in st.session_state: st.session_state.results = None
InitSessionState(ss) ==
    IF "results" \in DOMAIN ss THEN ss
    ELSE [k \in DOMAIN ss \cup {"results"} |-> IF k = "results" THEN None ELSE ss[k]]

\* the value a keyed widget returns in this run: what the session holds under
\* its key, None when the session holds nothing
WidgetValue(ss, key) == IF key \in DOMAIN ss THEN ss[key] ELSE None

\* a widget rendered in a run keeps (or gets) its key in the session
Rendered(ss, key) ==
    [k \in DOMAIN ss \cup {key} |-> IF k \in DOMAIN ss THEN ss[k] ELSE None]

\* at the end of a run the session forgets the widgets the run did not render
DropUnrendered(ss, elements) ==
    [k \in {q \in DOMAIN ss : q = "results" \/ q \in elements} |-> ss[k]]

\* an uploaded file: its lines in file order, each line the sequence of its
\* fields as text
CsvFile(ls) == [lines |-> ls]
\* the uploaded holdings files of a script run
ValidCsv ==
    CsvFile(<<<<"Ticker", "Weight">>, <<"RELIANCE", "8.5">>, <<"TCS", "7.2">>>>)
OneColumnCsv ==
    CsvFile(<<<<"Ticker">>, <<"RELIANCE">>>>)
NoWeightCsv ==
    CsvFile(<<<<"Ticker", "Weight">>, <<"RELIANCE", "abc">>, <<"TCS", "0">>>>)
CsvFiles == {ValidCsv, OneColumnCsv, NoWeightCsv}

\* ----------------------------------------------------------- portfolio tab
\* the two charts and the per-stock table of the portfolio tab, drawn in the
\* branch where beta is not None
PortfolioCharts(beta, betas) ==
    IF IsNone(beta) THEN {}
    ELSE {"fig_returns_comparison", "fig_beta_regression"}
            \cup (IF betas # <<>> THEN {"stock_table"} ELSE {})

\* press "Calculate Portfolio Beta": validation of the holdings, benchmark
\* fetch, set-up of the per-stock loop
PortfolioClick ==
    /\ pc = "idle"
    /\ session_state # NoKeys
    /\ trigger' = "portfolio_button"
    /\ session_state' = InitSessionState(session_state)
    /\ page' = {}
    /\ \E rows \in WidgetRows, benchmark_df \in IndexFrames :
         LET sd == StocksData(rows)
             ok == sd # <<>> /\ ~AllocationTooHigh(sd)
             fetched == ok /\ ~IsMissing(benchmark_df)
         IN  /\ stocks_data' = sd
             /\ shown' = IF sd = <<>> THEN {"err_no_stock"}
                         ELSE IF AllocationTooHigh(sd) THEN {"err_allocation"}
                         ELSE IF IsMissing(benchmark_df) THEN {"err_benchmark"}
                         ELSE {}
             /\ events' = IF ok THEN <<"fetch_index_data">> ELSE <<>>
             /\ progress' = IF fetched THEN Num(0) ELSE None
             /\ benchmark_returns' =
                    IF fetched THEN calculate_returns(benchmark_df) ELSE None
             /\ pc' = IF fetched THEN "portfolio_loop" ELSE "done"
    /\ UNCHANGED <<idx, stock_betas, all_stock_returns, valid_stocks,
                   portfolio_returns, nav_df, nav_returns_monthly,
                   benchmark_returns_monthly, result, metrics, risk_class, call>>
    /\ UNCHANGED <<callVars, holdingsVars>>

\* a progress value that counts the stocks before the current one
LoopProgress_ZeroBased(i, n) == Rat(i, n)

\* progress_bar.progress((idx + 1) / len(stocks_data))
LoopProgress(i, n) == Rat(i + 1, n)

\* one pass of "for idx, stock in enumerate(stocks_data)"
PortfolioStock ==
    /\ pc = "portfolio_loop"
    /\ idx < Len(stocks_data)
    /\ \E stock_df \in StockFrames :
         LET stock == stocks_data[idx + 1]
         IN  IF ~IsMissing(stock_df)
             THEN \E stock_returns \in {calculate_returns(stock_df)} :
                  \E c \in {Call(stock_returns, benchmark_returns)} :
                  LET stock_beta == c.out.beta
                  IN  /\ call' = c
                      /\ shown' = shown \cup CallShown(c.out)
                      /\ events' = events \o <<"fetch_stock_data", "calculate_beta">>
                      /\ IF ~IsNone(stock_beta)
                         THEN /\ stock_betas' = Append(stock_betas,
                                    [Symbol |-> stock.Symbol,
                                     Allocation |-> stock.Allocation,
                                     Beta |-> stock_beta,
                                     Contribution |->
                                        RMul(stock_beta, Rat(stock.Allocation, 100))])
                              /\ all_stock_returns' = Append(all_stock_returns,
                                    Weighted(stock_returns, stock.Allocation))
                              /\ valid_stocks' = Append(valid_stocks, stock)
                         ELSE UNCHANGED <<stock_betas, all_stock_returns, valid_stocks>>
             ELSE /\ shown' = shown \cup {"warn_no_stock_data"}
                  /\ events' = Append(events, "fetch_stock_data")
                  /\ UNCHANGED <<call, stock_betas, all_stock_returns, valid_stocks>>
    /\ idx' = idx + 1
    /\ progress' = LoopProgress(idx, Len(stocks_data))
    /\ UNCHANGED <<pc, stocks_data, benchmark_returns, portfolio_returns, nav_df,
                   nav_returns_monthly, benchmark_returns_monthly, result, metrics,
                   risk_class>>
    /\ UNCHANGED <<callVars, sessionVars, holdingsVars>>

\* after the loop: portfolio returns, portfolio beta, metrics, risk box,
\* charts
PortfolioFinish ==
    /\ pc = "portfolio_loop"
    /\ idx = Len(stocks_data)
    /\ pc' = "done"
    /\ progress' = None
    /\ IF all_stock_returns = <<>>
       THEN /\ shown' = shown \cup {"err_no_data"}
            /\ UNCHANGED <<portfolio_returns, result, metrics, risk_class, call, page,
                           events>>
       ELSE \E pr \in {ConcatSum(all_stock_returns)} :
            \E c \in {Call(pr, benchmark_returns)} :
            LET beta == c.out.beta
            IN  /\ portfolio_returns' = pr
                /\ call' = c
                /\ events' = Append(events, "calculate_beta")
                /\ result' = ResultOf(c.out)
                /\ page' = PortfolioCharts(beta, stock_betas)
                /\ IF IsNone(beta)
                   THEN /\ shown' = shown \cup CallShown(c.out) \cup {"err_beta"}
                        /\ UNCHANGED <<metrics, risk_class>>
                   ELSE /\ shown' = shown \cup CallShown(c.out)
                        /\ metrics' = PortfolioMetrics(pr, benchmark_returns, beta)
                        /\ risk_class' = PortfolioRiskClass(beta)
    /\ UNCHANGED <<stocks_data, benchmark_returns, idx, stock_betas, all_stock_returns,
                   valid_stocks, nav_df, nav_returns_monthly, benchmark_returns_monthly>>
    /\ UNCHANGED <<callVars, session_state, trigger, holdingsVars>>

\* --------------------------------------------------------- mutual-fund tab
\* the AMFI codes entered: none, a fund of the factsheet table, another fund
Codes == {"", "147844", "100001"}

\* press "Analyze Mutual Fund": the AMFI code check and fetch_mf_nav
MFClick ==
    /\ pc = "idle"
    /\ session_state # NoKeys
    /\ trigger' = "mf_button"
    /\ session_state' = InitSessionState(session_state)
    /\ page' = {}
    /\ \E code \in Codes, nav \in NavFrames :
         LET found == code # "" /\ ~IsMissing(nav)
         IN  /\ mf_scheme' = code
             /\ shown' = IF code = "" THEN {"err_no_code"}
                         ELSE IF IsMissing(nav) THEN {"err_nav"} ELSE {}
             /\ events' = IF code # "" THEN <<"fetch_mf_nav">> ELSE <<>>
             /\ nav_df' = IF found THEN nav ELSE None
             /\ pc' = IF found THEN "mf_benchmark" ELSE "done"
    /\ UNCHANGED <<stocks_data, benchmark_returns, idx, stock_betas,
                   all_stock_returns, valid_stocks, portfolio_returns,
                   nav_returns_monthly, benchmark_returns_monthly, result, metrics,
                   risk_class, call>>
    /\ UNCHANGED <<callVars, holdings_info, progress>>

\* the charts and the data summary drawn whatever the beta
MFCharts_Unguarded(beta, nav_returns, bench_returns) ==
    {"fig_nav", "fig_beta_regression", "data_summary"}
        \cup (IF TsOf(nav_returns.rows) \cap TsOf(bench_returns.rows) # {}
              THEN {"fig_cumulative"} ELSE {})

\* the charts and the data summary of the fund tab, drawn in the branch where
\* beta is not None; the cumulative chart needs a date both daily return
\* series carry
MFCharts(beta, nav_returns, bench_returns) ==
    IF IsNone(beta) THEN {}
    ELSE {"fig_nav", "fig_beta_regression", "data_summary"}
            \cup (IF TsOf(nav_returns.rows) \cap TsOf(bench_returns.rows) # {}
                  THEN {"fig_cumulative"} ELSE {})

\* a run that goes on to the holdings section whatever the beta
AfterBeta_Always(beta) == "mf_holdings"

\* if beta is None: (the error, the end of the run) else: (metrics, charts
\* and then the holdings section)
AfterBeta(beta) == IF IsNone(beta) THEN "done" ELSE "mf_holdings"

\* benchmark fetch, monthly resampling, fund beta, metrics, risk box, charts
MFAnalyze ==
    /\ pc = "mf_benchmark"
    /\ \E benchmark_df \in MFIndexFrames :
         IF IsMissing(benchmark_df)
         THEN /\ shown' = shown \cup {"err_benchmark"}
              /\ events' = Append(events, "fetch_index_data")
              /\ pc' = "done"
              /\ UNCHANGED <<nav_returns_monthly, benchmark_returns_monthly, result,
                             metrics, risk_class, call, page>>
         ELSE LET nav_monthly == ResampleMonthlyLast(nav_df, DaysPerMonth)
                  benchmark_monthly == ResampleMonthlyLast(benchmark_df, DaysPerMonth)
              IN  \E nrm \in {calculate_returns(nav_monthly)} :
                  \E brm \in {calculate_returns(benchmark_monthly)} :
                  \E c \in {Call(nrm, brm)} :
                  LET beta == c.out.beta
                  IN  /\ nav_returns_monthly' = nrm
                  /\ benchmark_returns_monthly' = brm
                  /\ call' = c
                  /\ events' = events \o <<"fetch_index_data", "calculate_beta">>
                  /\ result' = ResultOf(c.out)
                  /\ page' = MFCharts(beta, calculate_returns(nav_df),
                                      calculate_returns(benchmark_df))
                  /\ pc' = AfterBeta(beta)
                  /\ IF IsNone(beta)
                     THEN /\ shown' = shown \cup CallShown(c.out) \cup {"err_beta"}
                          /\ UNCHANGED <<metrics, risk_class>>
                     ELSE /\ shown' = shown \cup CallShown(c.out)
                          /\ metrics' = MFMetrics(nrm, brm, beta)
                          /\ risk_class' = MFRiskClass(beta)
    /\ UNCHANGED <<stocks_data, benchmark_returns, idx, stock_betas, all_stock_returns,
                   valid_stocks, portfolio_returns, nav_df, progress>>
    /\ UNCHANGED <<callVars, session_state, trigger, holdingsVars>>

\* ------------------------------------------------ holdings of the fund tab
\* what the Groww page yields: no holding, or a list of holdings
GrowwScraped ==
    {<<>>, <<<<"RELIANCE", Num(9)>>, <<"HDFCBANK", Num(8)>>, <<"INFY", Num(6)>>>>}

\* scrape_holdings_from_groww: None without a holding, else the first ten
scrape_holdings_from_groww(amfi_code, scraped) ==
    IF scraped = <<>> THEN None
    ELSE [name |-> "Fund", holdings |-> SubSeq(scraped, 1, Min({10, Len(scraped)})),
          source |-> "Groww (Live)"]

\* known_holdings.get(amfi_code, None)
known_holdings(amfi_code) ==
    IF amfi_code = "147844"
    THEN [name |-> "SBI Blue Chip Fund",
          holdings |-> <<<<"RELIANCE", Rat(85, 10)>>, <<"ICICIBANK", Rat(72, 10)>>,
                         <<"HDFCBANK", Rat(68, 10)>>, <<"INFY", Rat(59, 10)>>,
                         <<"TCS", Rat(54, 10)>>, <<"ITC", Rat(48, 10)>>,
                         <<"BHARTIARTL", Rat(42, 10)>>, <<"KOTAKBANK", Rat(39, 10)>>,
                         <<"HINDUNILVR", Rat(35, 10)>>, <<"AXISBANK", Rat(32, 10)>>>>,
          source |-> "Factsheet (Static)"]
    ELSE IF amfi_code = "119551"
    THEN [name |-> "HDFC Top 100 Fund",
          holdings |-> <<<<"HDFCBANK", Rat(81, 10)>>, <<"RELIANCE", Rat(75, 10)>>,
                         <<"ICICIBANK", Rat(69, 10)>>, <<"INFY", Rat(62, 10)>>,
                         <<"TCS", Rat(58, 10)>>, <<"KOTAKBANK", Rat(45, 10)>>,
                         <<"BHARTIARTL", Rat(41, 10)>>, <<"ITC", Rat(38, 10)>>,
                         <<"SBIN", Rat(35, 10)>>, <<"HINDUNILVR", Rat(32, 10)>>>>,
          source |-> "Factsheet (Static)"]
    ELSE IF amfi_code = "120503"
    THEN [name |-> "ICICI Prudential Bluechip Fund",
          holdings |-> <<<<"ICICIBANK", Rat(82, 10)>>, <<"HDFCBANK", Rat(78, 10)>>,
                         <<"RELIANCE", Rat(71, 10)>>, <<"INFY", Rat(65, 10)>>,
                         <<"TCS", Rat(59, 10)>>, <<"BHARTIARTL", Rat(48, 10)>>,
                         <<"KOTAKBANK", Rat(43, 10)>>, <<"ITC", Rat(39, 10)>>,
                         <<"HINDUNILVR", Rat(36, 10)>>, <<"SBIN", Rat(33, 10)>>>>,
          source |-> "Factsheet (Static)"]
    ELSE None

\* a lookup that consults the factsheet table before Groww
scrape_mf_holdings_moneycontrol_TableFirst(amfi_code, scraped) ==
    LET groww_data == scrape_holdings_from_groww(amfi_code, scraped)
    IN  IF ~IsNone(known_holdings(amfi_code)) THEN known_holdings(amfi_code)
        ELSE groww_data

\* scrape_mf_holdings_moneycontrol: Groww first, the factsheet table otherwise
scrape_mf_holdings_moneycontrol(amfi_code, scraped) ==
    LET groww_data == scrape_holdings_from_groww(amfi_code, scraped)
    IN  IF ~IsNone(groww_data) THEN groww_data ELSE known_holdings(amfi_code)

\* a missing cell of a frame read from a file (pandas NaN): read_csv reads an
\* empty field as missing, so no cell it returns is the empty text
NA == ""

\* pd.read_csv(uploaded_file) with its defaults: an empty file raises; the
\* first line is the header and gives the column names, every other line is
\* a row of cells
read_csv(file) ==
    IF file.lines = <<>> THEN [raised |-> TRUE, columns |-> <<>>, rows |-> <<>>]
    ELSE [raised |-> FALSE, columns |-> Head(file.lines), rows |-> Tail(file.lines)]

\* .astype(str): a missing cell becomes the text 'nan'
AsTypeStr(cell) == IF cell = NA THEN "nan" ELSE cell

\* .str.strip().str.upper() on the texts the files carry
StripUpper(text) ==
    CASE text = " tcs " -> "TCS"
      [] text = "  " -> ""
      [] text = "nan" -> "NAN"
      [] text = "Ticker" -> "TICKER"
      [] text = "Weight" -> "WEIGHT"
      [] text = "abc" -> "ABC"
      [] OTHER -> text

\* pd.to_numeric(..., errors='coerce') on the texts the files carry: the
\* number a text spells, NaN for a missing cell and for any other text
ToNumeric(cell) ==
    CASE cell = "8.5" -> Rat(85, 10)
      [] cell = "7.2" -> Rat(72, 10)
      [] cell = "5" -> Num(5)
      [] cell = "0" -> Num(0)
      [] cell = "-1" -> Num(-1)
      [] OTHER -> NaN

\* the cleaned frame: the first column as trimmed upper-case text, the second
\* as a number, and whether a further column of the row has a missing cell
CleanRows(rows) ==
    [i \in 1..Len(rows) |->
        [ticker |-> StripUpper(AsTypeStr(rows[i][1])),
         weight |-> ToNumeric(rows[i][2]),
         other_na |-> \E k \in 3..Len(rows[i]) : rows[i][k] = NA]]

\* holdings_csv.dropna(): a row with a missing cell in any column is dropped
DropNaCsv(rows) == SelectSeq(rows, LAMBDA r : ~IsNaN(r.weight) /\ ~r.other_na)

\* the CSV branch: what an uploaded file makes of holdings_info, and the
\* message it shows
CsvBranch(uploaded_file, looked_up) ==
    IF IsNone(uploaded_file) THEN [holdings_info |-> looked_up, shown |-> {}]
    ELSE LET holdings_csv == read_csv(uploaded_file)
         IN  IF holdings_csv.raised
             THEN [holdings_info |-> looked_up, shown |-> {"err_csv_read"}]
             ELSE IF Len(holdings_csv.columns) < 2
             THEN [holdings_info |-> looked_up, shown |-> {"err_csv_columns"}]
             ELSE LET rows == DropNaCsv(CleanRows(holdings_csv.rows))
                      valid == SelectSeq(rows, LAMBDA r : r.ticker # "" /\ RLt(Num(0), r.weight))
                      csv_holdings == [i \in 1..Len(valid) |-> <<valid[i].ticker, valid[i].weight>>]
                  IN  IF rows = <<>>
                      THEN [holdings_info |-> looked_up, shown |-> {"err_csv_no_data"}]
                      ELSE IF csv_holdings # <<>>
                      THEN [holdings_info |-> [name |-> "Custom Portfolio from CSV",
                                               holdings |-> csv_holdings,
                                               source |-> "Uploaded CSV"],
                            shown |-> {}]
                      ELSE [holdings_info |-> looked_up, shown |-> {"err_csv_no_holdings"}]

\* the holdings section: lookup, the upload widget, the CSV branch, the
\* per-holding price fetches, the holdings analysis
MFHoldings ==
    /\ pc = "mf_holdings"
    /\ pc' = "done"
    /\ \E scraped \in GrowwScraped, priced \in {"all", "none"} :
         LET looked_up == scrape_mf_holdings_moneycontrol(mf_scheme, scraped)
             uploaded_file == WidgetValue(session_state, "holdings_csv")
             csv == CsvBranch(uploaded_file, looked_up)
             info == csv.holdings_info
             holdings_data == IF IsNone(info) \/ priced = "none" THEN <<>>
                              ELSE info.holdings
         IN  /\ holdings_info' = info
             /\ events' = events \o <<"scrape_mf_holdings_moneycontrol">>
                            \o (IF IsNone(info) THEN <<>>
                                ELSE [i \in 1..Len(info.holdings) |->
                                         "fetch_live_stock_price"])
             /\ session_state' = Rendered(session_state, "holdings_csv")
             /\ shown' = shown \cup csv.shown
                            \cup (IF IsNone(info) THEN {"warn_no_holdings"} ELSE {})
             /\ page' = page \cup {"holdings_csv"}
                            \cup (IF holdings_data # <<>>
                                  THEN {"holdings_analysis"} ELSE {})
    /\ UNCHANGED <<stocks_data, benchmark_returns, idx, stock_betas, all_stock_returns,
                   valid_stocks, portfolio_returns, nav_df, nav_returns_monthly,
                   benchmark_returns_monthly, result, metrics, risk_class, call,
                   mf_scheme, trigger, progress>>
    /\ UNCHANGED callVars

\* ------------------------------------------------------------ fetch_mf_nav
\* a date as the services spell it: <<day of the month, month>>
\* pd.to_datetime(text, format=...): the day the text names
ToDatetime(date) == (date[2] - 1) * DaysPerMonth + date[1]

\* the outcome of a call or of a block: the two values returned, the
\* exception that left it ("none" when it returned), and the messages shown
NavOutcome(df, info, msgs) ==
    [nav_df |-> df, scheme_info |-> info, raised |-> "none", shown |-> msgs]
\* an exception leaves the block
NavRaise(exception) ==
    [nav_df |-> None, scheme_info |-> None, raised |-> exception, shown |-> {}]

\* the first line of the AMFI list with the code, None when there is none
\* (for line in lines: ... if code == str(amfi_code): ... break)
FindScheme(lines, amfi_code) ==
    LET hits == SelectSeq(lines, LAMBDA l : l.code = amfi_code)
    IN  IF hits = <<>> THEN None ELSE Head(hits)

\* nav_df.sort_values('date') after to_datetime and to_numeric: one row per
\* record of the history, in date order
SortedNav(data) ==
    LET day(i) == ToDatetime(data[i].date)
        days == Ascending({day(i) : i \in 1..Len(data)})
        navOn(d) == data[CHOOSE i \in 1..Len(data) : day(i) = d].nav
    IN  [k \in 1..Len(days) |-> Row(days[k], ToNumeric(navOn(days[k])))]

\* mask = (date >= start_date) & (date <= end_date); nav_df[mask]
InPeriod(rows, start_date, end_date) ==
    SelectSeq(rows, LAMBDA r : r.ts >= start_date /\ r.ts <= end_date)

\* the inner try block with its handler: the rows of the history inside the
\* period; no rows when the answer is not 200 or has no 'data'; a request
\* that times out and an empty 'data' (a frame without a 'date' column)
\* raise, which the handler turns into its warning and no rows
HistoricalNav(hist, start_date, end_date) ==
    IF hist.status = "timeout" \/ (hist.status = "ok" /\ hist.has_data /\ hist.data = <<>>)
    THEN [rows |-> <<>>, shown |-> {"warn_no_history"}]
    ELSE IF hist.status # "ok" \/ ~hist.has_data THEN [rows |-> <<>>, shown |-> {}]
    ELSE [rows |-> InPeriod(SortedNav(hist.data), start_date, end_date), shown |-> {}]

\* scheme_info of the historical path: the meta of the history, the AMFI
\* name and 'N/A' where the meta is missing
HistoricalInfo(hist, scheme_name) ==
    [scheme_name |-> IF hist.has_meta THEN "meta name" ELSE scheme_name,
     fund_house |-> IF hist.has_meta THEN "meta house" ELSE "N/A",
     scheme_type |-> IF hist.has_meta THEN "meta type" ELSE "N/A",
     scheme_category |-> IF hist.has_meta THEN "meta category" ELSE "N/A"]

\* a fallback that returns the NAV table without a scheme_info
CurrentNav_NoInfo(line) ==
    IF line.nav_value = "" \/ IsNone(line.nav_date)
    THEN NavOutcome(None, None, {})
    ELSE IF IsNaN(ToNumeric(line.nav_value))
    THEN NavOutcome(None, None, {"warn_only_current"})
    ELSE NavOutcome(Series("D", <<Row(ToDatetime(line.nav_date),
                                      ToNumeric(line.nav_value))>>),
                    None, {"warn_only_current"})

\* if nav_value and nav_date: the current NAV of the AMFI list as a table of
\* one row; float(nav_value) raising ends in return None, None
CurrentNav(line) ==
    IF line.nav_value = "" \/ IsNone(line.nav_date)
    THEN NavOutcome(None, None, {})
    ELSE IF IsNaN(ToNumeric(line.nav_value))
    THEN NavOutcome(None, None, {"warn_only_current"})
    ELSE NavOutcome(Series("D", <<Row(ToDatetime(line.nav_date),
                                      ToNumeric(line.nav_value))>>),
                    [scheme_name |-> line.scheme_name, fund_house |-> "N/A",
                     scheme_type |-> "N/A", scheme_category |-> "N/A"],
                    {"warn_only_current"})

\* the body of the outer try block, amfi and hist being what the two
\* services answer; a request for the AMFI list that times out raises
FetchMfNavBody(amfi_code, start_date, end_date, amfi, hist) ==
    IF amfi.status = "timeout" THEN NavRaise("Timeout")
    ELSE IF amfi.status # "ok" THEN NavOutcome(None, None, {"err_amfi_status"})
    ELSE LET line == FindScheme(amfi.lines, amfi_code)
         IN  IF IsNone(line) THEN NavOutcome(None, None, {"err_not_found"})
             ELSE LET historical == HistoricalNav(hist, start_date, end_date)
                      current == CurrentNav(line)
                  IN  IF historical.rows # <<>>
                      THEN NavOutcome(Series("D", historical.rows),
                                      HistoricalInfo(hist, line.scheme_name), {})
                      ELSE [current EXCEPT !.shown = @ \cup historical.shown]

\* fetch_mf_nav(amfi_code, start_date, end_date): the body, and the handlers
\* except requests.Timeout and except Exception, each returning None, None
fetch_mf_nav(amfi_code, start_date, end_date, amfi, hist) ==
    LET body == FetchMfNavBody(amfi_code, start_date, end_date, amfi, hist)
    IN  IF body.raised = "Timeout" THEN NavOutcome(None, None, {"err_timeout"})
        ELSE IF body.raised # "none" THEN NavOutcome(None, None, {"err_fetch"})
        ELSE body

\* ------------------------------------------------- the other interactions
\* the browser opens the page, or a widget other than the two buttons changes
Interact ==
    /\ pc = "idle"
    /\ pc' = "rerun"
    /\ trigger' = IF session_state = NoKeys THEN "load" ELSE "widget"
    /\ UNCHANGED <<stocks_data, benchmark_returns, idx, stock_betas, all_stock_returns,
                   valid_stocks, portfolio_returns, nav_df, nav_returns_monthly,
                   benchmark_returns_monthly, result, metrics, risk_class, shown, events,
                   progress, call, session_state, page>>
    /\ UNCHANGED <<callVars, holdingsVars>>

\* a file is dropped on the upload widget the page shows
UploadCSV ==
    /\ pc = "idle"
    /\ "holdings_csv" \in page
    /\ pc' = "rerun"
    /\ trigger' = "upload"
    /\ \E file \in CsvFiles :
         session_state' = [session_state EXCEPT !["holdings_csv"] = file]
    /\ UNCHANGED <<stocks_data, benchmark_returns, idx, stock_betas, all_stock_returns,
                   valid_stocks, portfolio_returns, nav_df, nav_returns_monthly,
                   benchmark_returns_monthly, result, metrics, risk_class, shown, events,
                   progress, call, page>>
    /\ UNCHANGED <<callVars, holdingsVars>>

\* a script run in which neither button returns True: the body of neither
\* "if st.button(...)" runs, the page holds the inputs and the About tab only
RunWithoutButton ==
    /\ pc = "rerun"
    /\ pc' = "done"
    /\ session_state' = InitSessionState(session_state)
    /\ page' = {}
    /\ UNCHANGED <<stocks_data, benchmark_returns, idx, stock_betas, all_stock_returns,
                   valid_stocks, portfolio_returns, nav_df, nav_returns_monthly,
                   benchmark_returns_monthly, result, metrics, risk_class, shown, events,
                   progress, call, trigger>>
    /\ UNCHANGED <<callVars, holdingsVars>>

\* the elements of a page that take input from the user
InputWidgets(elements) == elements \cap {"holdings_csv"}

\* the script run is over: its locals are gone, the next interaction starts a
\* new run from the top of the script; of the page in the browser, what
\* matters from here on is the input widgets it offers
ScriptEnd ==
    /\ pc = "done"
    /\ pc' = "idle"
    /\ stocks_data' = <<>>
    /\ benchmark_returns' = None
    /\ idx' = 0
    /\ stock_betas' = <<>>
    /\ all_stock_returns' = <<>>
    /\ valid_stocks' = <<>>
    /\ portfolio_returns' = None
    /\ nav_df' = None
    /\ nav_returns_monthly' = None
    /\ benchmark_returns_monthly' = None
    /\ result' = NoResult
    /\ metrics' = NoMetrics
    /\ risk_class' = "none"
    /\ shown' = {}
    /\ events' = <<>>
    /\ progress' = None
    /\ call' = NoCall
    /\ mf_scheme' = ""
    /\ holdings_info' = None
    /\ session_state' = DropUnrendered(session_state, page)
    /\ trigger' = "none"
    /\ page' = InputWidgets(page)
    /\ UNCHANGED callVars

Next ==
    \/ Interact
    \/ UploadCSV
    \/ RunWithoutButton
    \/ PortfolioClick
    \/ PortfolioStock
    \/ PortfolioFinish
    \/ MFClick
    \/ MFAnalyze
    \/ MFHoldings
    \/ ScriptEnd

Spec == Init /\ [][Next]_vars

\* ------------------------------------------ calculate_beta as a function
\* a return series over the timestamps lo..MaxT: the values repeat the
\* pattern pat, the timestamp hole is absent (0: none), the value at the
\* timestamp nan is NaN (0: none)
PatternSeries(lo, hole, nan, pat) ==
    LET ts == Ascending({t \in lo..MaxT : t # hole})
    IN  Series("D", [i \in 1..Len(ts) |->
                        Row(ts[i], IF ts[i] = nan THEN NaN
                                   ELSE Num(pat[((ts[i] - 1) % Len(pat)) + 1]))])

\* value patterns of period 3: the constant ones and those ending in 0
Patterns == {pat \in [1..3 -> 0..MaxVal] : pat[3] = 0 \/ (pat[1] = pat[3] /\ pat[2] = pat[3])}

\* the multiples of the value patterns by -1 and by 2
Scales == {-1, 2}
ScaledPatterns == {[i \in 1..3 |-> c * pat[i]] : pat \in Patterns, c \in Scales}

\* asset series: complete, starting late, with a hole, or with a NaN; and
\* complete or with a hole, of values that are multiples of a pattern
ReturnsInputs ==
    {PatternSeries(shape[1], shape[2], shape[3], pat) :
        shape \in {<<1, 0, 0>>, <<2, 0, 0>>, <<1, 4, 0>>, <<2, 4, 0>>, <<1, 0, 5>>},
        pat \in Patterns}
    \cup {PatternSeries(1, hole, 0, pat) : hole \in {0, 4}, pat \in ScaledPatterns}

\* benchmark series: complete, with a hole or a NaN or both, the last five
\* timestamps only, or the last timestamp only
BenchmarkInputs ==
    {PatternSeries(lo, hole, nan, pat) :
        lo \in {1, MaxT - 4, MaxT}, hole \in {0, 3}, nan \in {0, 6}, pat \in Patterns}

\* a caller holds two return series and has not called yet
InitCalc ==
    /\ pc = "calling"
    /\ FreshLocals
    /\ \E r \in ReturnsInputs, b \in BenchmarkInputs :
         call = [returns |-> r, benchmark_returns |-> b, returned |-> FALSE,
                 out |-> NoOutcome]
    /\ rcall = NoRCall
    /\ procs = NoProcs
    /\ fcall = NoFCall
    /\ session_state = NoKeys
    /\ trigger = "none"
    /\ page = {}

\* the call of calculate_beta(returns, benchmark_returns) returns
CalculateBetaCall ==
    /\ pc = "calling"
    /\ pc' = "returned"
    /\ call' = Call(call.returns, call.benchmark_returns)
    /\ UNCHANGED <<stocks_data, benchmark_returns, idx, stock_betas,
                   all_stock_returns, valid_stocks, portfolio_returns, nav_df,
                   nav_returns_monthly, benchmark_returns_monthly, result, metrics,
                   risk_class, events, progress>>
    /\ shown' = shown \cup CallShown(call'.out)
    /\ UNCHANGED <<callVars, sessionVars, holdingsVars>>

NextCalc == CalculateBetaCall

SpecCalc == InitCalc /\ [][NextCalc]_vars

\* --------------------------------------- calculate_returns as a function
\* price levels of the price series handed to calculate_returns
PriceLevels == {100, 105, 110}

\* a price series of the given prices at the dates lo, lo + step, ..., with
\* or without a time zone
PriceSeries(levels, lo, step, zone) ==
    [Series("D", [i \in 1..Len(levels) |-> Row(lo + (i - 1) * step, Num(levels[i]))])
        EXCEPT !.tz = zone]

PricesInputs ==
    {PriceSeries(levels, lo, step, zone) :
        levels \in UNION {[1..m -> PriceLevels] : m \in 1..MaxPrices},
        lo \in {1, 3}, step \in {1, 3}, zone \in {NAIVE, KOLKATA}}

\* a caller holds a price series and has not called yet
InitReturns ==
    /\ pc = "calling"
    /\ FreshLocals
    /\ call = NoCall
    /\ \E prices \in PricesInputs :
         rcall = [prices |-> prices, returned |-> FALSE, out |-> None]
    /\ procs = NoProcs
    /\ fcall = NoFCall
    /\ session_state = NoKeys
    /\ trigger = "none"
    /\ page = {}

\* the call of calculate_returns(prices) returns
CalculateReturnsCall ==
    /\ pc = "calling"
    /\ pc' = "returned"
    /\ rcall' = [rcall EXCEPT !.returned = TRUE, !.out = calculate_returns(rcall.prices)]
    /\ UNCHANGED <<stocks_data, benchmark_returns, idx, stock_betas,
                   all_stock_returns, valid_stocks, portfolio_returns, nav_df,
                   nav_returns_monthly, benchmark_returns_monthly, result, metrics,
                   risk_class, shown, events, progress, call, procs, fcall, sessionVars,
                   holdingsVars>>

NextReturns == CalculateReturnsCall

SpecReturns == InitReturns /\ [][NextReturns]_vars

\* ------------------------------------------ the CSV branch as a function
\* the lines of the uploaded files: a header, holdings with a trimmed and an
\* untrimmed lower-case ticker, weights that are no number, zero or negative,
\* and lines without a ticker
CsvLineChoices ==
    {<<"Ticker", "Weight">>, <<"RELIANCE", "8.5">>, <<" tcs ", "7.2">>,
     <<"INFY", "abc">>, <<"ITC", "0">>, <<"SBIN", "-1">>, <<"", "5">>, <<"  ", "5">>}

\* files of one, two or three columns; a third column is filled or empty
CsvShapes == {"one", "two", "three", "three_empty"}
Shaped(line, shape) ==
    CASE shape = "one" -> <<line[1]>>
      [] shape = "two" -> line
      [] shape = "three" -> line \o <<"x">>
      [] shape = "three_empty" -> line \o <<NA>>

CsvInputs ==
    {CsvFile([i \in 1..Len(ls) |-> Shaped(ls[i], shape)]) :
        ls \in UNION {[1..m -> CsvLineChoices] : m \in 0..MaxLines},
        shape \in CsvShapes}

\* a file has been uploaded and the CSV branch has not run yet
InitCsv ==
    /\ pc = "calling"
    /\ FreshLocals
    /\ call = NoCall
    /\ rcall = NoRCall
    /\ procs = NoProcs
    /\ \E file \in CsvInputs :
         fcall = [fn |-> "csv_branch", arg |-> file, returned |-> FALSE, out |-> None]
    /\ session_state = NoKeys
    /\ trigger = "none"
    /\ page = {}

\* the CSV branch runs on the uploaded file, no holdings having been looked up
CsvBranchCall ==
    /\ pc = "calling"
    /\ fcall.fn = "csv_branch"
    /\ pc' = "returned"
    /\ \E csv \in {CsvBranch(fcall.arg, None)} :
         /\ fcall' = [fcall EXCEPT !.returned = TRUE, !.out = csv.holdings_info]
         /\ shown' = shown \cup csv.shown
    /\ UNCHANGED <<stocks_data, benchmark_returns, idx, stock_betas,
                   all_stock_returns, valid_stocks, portfolio_returns, nav_df,
                   nav_returns_monthly, benchmark_returns_monthly, result, metrics,
                   risk_class, events, progress, call, rcall, procs, sessionVars,
                   holdingsVars>>

NextCsv == CsvBranchCall

SpecCsv == InitCsv /\ [][NextCsv]_vars

\* ------------------------------- the choice of the holdings as a function
\* the codes of the factsheet table, another code
HoldingsCodes == {"147844", "119551", "120503", "100001"}

\* what the Groww page yields: nothing, a few holdings, or more than ten
GrowwPages ==
    GrowwScraped \cup
    {<<<<"RELIANCE", Num(9)>>, <<"HDFCBANK", Num(8)>>, <<"INFY", Num(7)>>,
       <<"TCS", Num(6)>>, <<"ITC", Num(5)>>, <<"SBIN", Num(4)>>,
       <<"AXISBANK", Num(3)>>, <<"KOTAKBANK", Num(3)>>, <<"WIPRO", Num(2)>>,
       <<"MARUTI", Num(2)>>, <<"TITAN", Num(1)>>, <<"ONGC", Num(1)>>>>}

\* what the upload widget returns: no file, the example file, a file of one
\* column, a file without a usable weight, an empty file, a file of one line,
\* a file without a header, one of several holdings with a third column
UploadedFiles ==
    {None, ValidCsv, OneColumnCsv, NoWeightCsv,
     CsvFile(<<>>), CsvFile(<<<<"Ticker", "Weight">>>>),
     CsvFile(<<<<"RELIANCE", "8.5">>, <<"TCS", "7.2">>>>),
     CsvFile(<<<<"Ticker", "Weight", "Sector">>, <<" tcs ", "7.2", "x">>,
               <<"SBIN", "-1", "x">>, <<"RELIANCE", "8.5", "x">>>>)}

\* an analysis has reached its holdings section
InitHoldings ==
    /\ pc = "calling"
    /\ FreshLocals
    /\ call = NoCall
    /\ rcall = NoRCall
    /\ procs = NoProcs
    /\ \E code \in HoldingsCodes, scraped \in GrowwPages, file \in UploadedFiles :
         fcall = [fn |-> "holdings",
                  arg |-> [amfi_code |-> code, scraped |-> scraped,
                           uploaded_file |-> file],
                  returned |-> FALSE, out |-> None]
    /\ session_state = NoKeys
    /\ trigger = "none"
    /\ page = {}

\* holdings_info = scrape_mf_holdings_moneycontrol(...), then the CSV branch
HoldingsCall ==
    /\ pc = "calling"
    /\ fcall.fn = "holdings"
    /\ pc' = "returned"
    /\ \E looked_up \in {scrape_mf_holdings_moneycontrol(fcall.arg.amfi_code,
                                                         fcall.arg.scraped)} :
       \E csv \in {CsvBranch(fcall.arg.uploaded_file, looked_up)} :
         /\ fcall' = [fcall EXCEPT !.returned = TRUE,
                                   !.out = [looked_up |-> looked_up,
                                            holdings_info |-> csv.holdings_info]]
         /\ shown' = shown \cup csv.shown
    /\ UNCHANGED <<stocks_data, benchmark_returns, idx, stock_betas,
                   all_stock_returns, valid_stocks, portfolio_returns, nav_df,
                   nav_returns_monthly, benchmark_returns_monthly, result, metrics,
                   risk_class, events, progress, call, rcall, procs, sessionVars,
                   holdingsVars>>

NextHoldings == HoldingsCall

SpecHoldings == InitHoldings /\ [][NextHoldings]_vars

\* ------------------------------------------- fetch_mf_nav as a function
NavDays == NavMonths * DaysPerMonth
NavDates == {<<d, m>> : d \in 1..DaysPerMonth, m \in 1..NavMonths}
\* the date a day is spelled as
DateOfDay(day) == CHOOSE date \in NavDates : ToDatetime(date) = day

\* the AMFI list: the request fails, or the list holds another fund alone, or
\* also the fund with its name, a NAV text and, in lists with eight fields a
\* line, the date of that NAV
AmfiLine(code, nav, date) ==
    [code |-> code, scheme_name |-> "amfi name", nav_value |-> nav, nav_date |-> date]
AmfiAnswers ==
    {[status |-> st, lines |-> <<>>] : st \in {"timeout", "http_error"}}
    \cup {[status |-> "ok", lines |-> <<AmfiLine("100001", "7.2", None)>>]}
    \cup {[status |-> "ok",
           lines |-> <<AmfiLine("100001", "7.2", None), AmfiLine("147844", nav, date)>>] :
             nav \in {"8.5", "abc", ""},
             date \in {None, DateOfDay(1), DateOfDay(NavDays)}}

\* the history service, newest record first: the request times out or is
\* refused, the answer has no 'data', or it has the records of the days lo..hi (none when
\* lo > hi), the NAV of day 2 being no number, with or without a meta
HistRecords(lo, hi) ==
    [i \in 1..(hi - lo + 1) |->
        [date |-> DateOfDay(hi - i + 1),
         nav |-> IF hi - i + 1 = 2 THEN "abc" ELSE "8.5"]]
HistAnswers ==
    {[status |-> st, has_data |-> FALSE, has_meta |-> FALSE, data |-> <<>>] :
        st \in {"timeout", "http_error"}}
    \cup {[status |-> "ok", has_data |-> FALSE, has_meta |-> TRUE, data |-> <<>>]}
    \cup {[status |-> "ok", has_data |-> TRUE, has_meta |-> meta,
           data |-> HistRecords(lo, hi)] :
             meta \in BOOLEAN, lo \in 1..NavDays, hi \in 0..NavDays}

\* a caller holds a code and a period and has not called yet
InitNav ==
    /\ pc = "calling"
    /\ FreshLocals
    /\ call = NoCall
    /\ rcall = NoRCall
    /\ procs = NoProcs
    /\ \E code \in {"147844", "120503"}, start_date \in 1..NavDays,
          end_date \in 1..NavDays, amfi \in AmfiAnswers, hist \in HistAnswers :
         /\ start_date <= end_date
         /\ fcall = [fn |-> "fetch_mf_nav",
                     arg |-> [amfi_code |-> code, start_date |-> start_date,
                              end_date |-> end_date, amfi |-> amfi, hist |-> hist],
                     returned |-> FALSE, out |-> None]
    /\ session_state = NoKeys
    /\ trigger = "none"
    /\ page = {}

\* the call of fetch_mf_nav returns
FetchMfNavCall ==
    /\ pc = "calling"
    /\ fcall.fn = "fetch_mf_nav"
    /\ pc' = "returned"
    /\ \E out \in {fetch_mf_nav(fcall.arg.amfi_code, fcall.arg.start_date,
                                fcall.arg.end_date, fcall.arg.amfi, fcall.arg.hist)} :
         /\ fcall' = [fcall EXCEPT !.returned = TRUE, !.out = out]
         /\ shown' = shown \cup out.shown
    /\ UNCHANGED <<stocks_data, benchmark_returns, idx, stock_betas,
                   all_stock_returns, valid_stocks, portfolio_returns, nav_df,
                   nav_returns_monthly, benchmark_returns_monthly, result, metrics,
                   risk_class, events, progress, call, rcall, procs, sessionVars,
                   holdingsVars>>

NextNav == FetchMfNavCall

SpecNav == InitNav /\ [][NextNav]_vars

\* ------------------------------------------- concurrent calls, step by step
\* The objects the callers hold: two asset return series (the first with a
\* NaN), a moving, a
\* constant and a one-row benchmark return series, and a price series with a
\* time zone.  procs.heap is the sequence of these objects, procs.frame[p] the
\* frame of call p: the function called, its arguments (positions in the
\* heap), the values the arguments had when the call was made, the position
\* of the call, its local frame or series, its result and the messages it
\* wrote to its caller's page.
Heap ==
    <<PatternSeries(1, 0, 5, <<1, 1, 0>>),
      PatternSeries(2, 4, 0, <<0, 1, 0>>),
      PatternSeries(1, 3, 0, <<1, 0, 0>>),
      PatternSeries(1, 0, 0, <<1, 1, 1>>),
      PatternSeries(MaxT, 0, 0, <<1, 0, 0>>),
      PriceSeries(<<100, 105, 100>>, 1, 1, KOLKATA)>>

\* the calls a caller makes on these objects
CallChoices ==
    <<[fn |-> "calculate_beta", args |-> <<1, 3>>],
      [fn |-> "calculate_beta", args |-> <<2, 3>>],
      [fn |-> "calculate_beta", args |-> <<1, 4>>],
      [fn |-> "calculate_beta", args |-> <<2, 5>>],
      [fn |-> "calculate_returns", args |-> <<6>>]>>

NewFrame(heap, choice) ==
    [fn |-> choice.fn, args |-> choice.args,
     given |-> [i \in 1..Len(choice.args) |-> heap[choice.args[i]]],
     pc |-> "called", local |-> None, out |-> None, shown |-> {}]

\* MaxCalls calls have been made and none has taken a step (calls that differ
\* only in their numbering are taken once)
InitConc ==
    /\ pc = "calling"
    /\ FreshLocals
    /\ call = NoCall
    /\ rcall = NoRCall
    /\ fcall = NoFCall
    /\ session_state = NoKeys
    /\ trigger = "none"
    /\ page = {}
    /\ \E pick \in [1..MaxCalls -> 1..Len(CallChoices)] :
         /\ \A p \in 1..(MaxCalls - 1) : pick[p] <= pick[p + 1]
         /\ procs = [heap |-> Heap,
                     frame |-> [p \in 1..MaxCalls |-> NewFrame(Heap, CallChoices[pick[p]])]]

\* the arguments of call p as the objects are now
Arg(ps, p, i) == ps.heap[ps.frame[p].args[i]]

Return(ps, p, value, messages) ==
    [ps EXCEPT !.frame[p].pc = "returned", !.frame[p].out = value,
               !.frame[p].shown = @ \cup messages]

\* if len(returns) < 2 or len(benchmark_returns) < 2: return None, None, None
BetaGuard(ps, p) ==
    IF TooShort(Arg(ps, p, 1), Arg(ps, p, 2))
    THEN Return(ps, p, NoResult, {})
    ELSE [ps EXCEPT !.frame[p].pc = "framed"]

\* a join that leaves its frame where every call in progress finds it
BetaJoin_SharedFrame(ps, p) ==
    LET merged == DropNaMerged(JoinInner(Arg(ps, p, 1).rows, Arg(ps, p, 2).rows))
    IN  [ps EXCEPT !.frame =
            [q \in DOMAIN ps.frame |->
                IF q = p THEN [ps.frame[q] EXCEPT !.pc = "joined", !.local = merged]
                ELSE IF ps.frame[q].fn = "calculate_beta" /\ ps.frame[q].pc = "joined"
                     THEN [ps.frame[q] EXCEPT !.local = merged]
                     ELSE ps.frame[q]]]

\* returns_df, benchmark_df, merged = returns_df.join(...), merged.dropna():
\* new frames, local to the call
BetaJoin(ps, p) ==
    LET merged == DropNaMerged(JoinInner(Arg(ps, p, 1).rows, Arg(ps, p, 2).rows))
    IN  [ps EXCEPT !.frame[p].pc = "joined", !.frame[p].local = merged]

\* if len(merged) < 10: st.warning(...); return None, None, None
BetaFloor(ps, p) ==
    IF TooFew(ps.frame[p].local)
    THEN Return(ps, p, NoResult, {"warn_overlap"})
    ELSE [ps EXCEPT !.frame[p].pc = "regress"]

\* a regression that returns the result another call has returned, when
\* there is one
BetaRegress_Memo(ps, p) ==
    LET args == RegressionArgs(ps.frame[p].local)
        reg == linregress(args.x, args.y)
        done == {q \in DOMAIN ps.frame :
                    /\ ps.frame[q].fn = "calculate_beta"
                    /\ ps.frame[q].pc = "returned"
                    /\ ps.frame[q].out # NoResult}
    IN  IF done # {} THEN Return(ps, p, ps.frame[CHOOSE q \in done : TRUE].out, {})
        ELSE IF reg.raised
        THEN Return(ps, p, NoResult, {"err_regression"})
        ELSE Return(ps, p, [beta |-> BetaOf(reg), r_squared |-> RSquaredOf(reg),
                            correlation |-> CorrelationOf(reg)], {})

\* the try block: linregress on the two columns of merged, and the except
\* branch with its st.error
BetaRegress(ps, p) ==
    LET args == RegressionArgs(ps.frame[p].local)
        reg == linregress(args.x, args.y)
    IN  IF reg.raised
        THEN Return(ps, p, NoResult, {"err_regression"})
        ELSE Return(ps, p, [beta |-> BetaOf(reg), r_squared |-> RSquaredOf(reg),
                            correlation |-> CorrelationOf(reg)], {})

\* returns = prices.pct_change().dropna() * 100: a new series
ReturnsPct(ps, p) ==
    LET prices == Arg(ps, p, 1)
    IN  [ps EXCEPT !.frame[p].pc = "pct",
                   !.frame[p].local =
                       [prices EXCEPT !.rows = DropNaRows(PctChange(prices.rows, None))]]

\* returns.index = returns.index.tz_localize(None) on the new series; return
ReturnsTz(ps, p) ==
    LET returns == ps.frame[p].local
    IN  Return(ps, p, IF returns.tz # NAIVE THEN TzLocalizeNone(returns) ELSE returns, {})

\* a step of a call changes procs only
ConcFrame ==
    UNCHANGED <<pc, stocks_data, benchmark_returns, idx, stock_betas,
                all_stock_returns, valid_stocks, portfolio_returns, nav_df,
                nav_returns_monthly, benchmark_returns_monthly, result, metrics,
                risk_class, shown, events, progress, call, rcall, fcall, sessionVars,
                holdingsVars>>

InCall(p, fn, where) == procs.frame[p].fn = fn /\ procs.frame[p].pc = where

BetaGuardStep ==
    /\ \E p \in DOMAIN procs.frame :
         InCall(p, "calculate_beta", "called") /\ procs' = BetaGuard(procs, p)
    /\ ConcFrame
BetaJoinStep ==
    /\ \E p \in DOMAIN procs.frame :
         InCall(p, "calculate_beta", "framed") /\ procs' = BetaJoin(procs, p)
    /\ ConcFrame
BetaFloorStep ==
    /\ \E p \in DOMAIN procs.frame :
         InCall(p, "calculate_beta", "joined") /\ procs' = BetaFloor(procs, p)
    /\ ConcFrame
BetaRegressStep ==
    /\ \E p \in DOMAIN procs.frame :
         InCall(p, "calculate_beta", "regress") /\ procs' = BetaRegress(procs, p)
    /\ ConcFrame
ReturnsPctStep ==
    /\ \E p \in DOMAIN procs.frame :
         InCall(p, "calculate_returns", "called") /\ procs' = ReturnsPct(procs, p)
    /\ ConcFrame
ReturnsTzStep ==
    /\ \E p \in DOMAIN procs.frame :
         InCall(p, "calculate_returns", "pct") /\ procs' = ReturnsTz(procs, p)
    /\ ConcFrame

NextConc ==
    \/ BetaGuardStep
    \/ BetaJoinStep
    \/ BetaFloorStep
    \/ BetaRegressStep
    \/ ReturnsPctStep
    \/ ReturnsTzStep

SpecConc == InitConc /\ [][NextConc]_vars

\* ======================================================== checked claims
\* the arguments and the outcome of the latest call
ArgA == call.returns.rows
ArgB == call.benchmark_returns.rows
Out == call.out
Succeeded == call.returned /\ ~IsNone(Out.beta)

\* the timestamps both series carry with a value on both sides
CommonTs(A, B) ==
    {t \in TsOf(A) \cap TsOf(B) : ~IsNaN(At(A, t)) /\ ~IsNaN(At(B, t))}
\* the values of a series at the common timestamps, in timestamp order
CommonValues(S, A, B) ==
    LET ts == Ascending(CommonTs(A, B)) IN [i \in 1..Len(ts) |-> At(S, ts[i])]
AlignedN == IF call.returned THEN Cardinality(CommonTs(ArgA, ArgB)) ELSE 0

\* Cov(u, v) = E[uv] - E[u]E[v] over two equally long sequences of numbers
Cov(u, v) ==
    RSub(MeanV([i \in 1..Len(u) |-> RMul(u[i], v[i])]), RMul(MeanV(u), MeanV(v)))
AlignedA == CommonValues(ArgA, ArgA, ArgB)
AlignedB == CommonValues(ArgB, ArgA, ArgB)

\* C1: the rows handed to the regression are exactly the timestamps present
\* in both series with a value on both sides, one row per such timestamp, and
\* each row pairs the asset value and the benchmark value of its timestamp.
C1_AlignedByKey ==
    (call.returned /\ Out.regressed) =>
        LET common == CommonTs(ArgA, ArgB)
            m == Out.merged
        IN  /\ TsOf(m) = common
            /\ Len(m) = Cardinality(common)
            /\ \A i \in 1..Len(m) :
                  /\ m[i].returns = At(ArgA, m[i].ts)
                  /\ m[i].benchmark = At(ArgB, m[i].ts)

\* the spec's example at scale: A lacks timestamp 4, B lacks timestamp 3, the
\* regression ran on the other timestamps and the pairing by position would
\* have paired some row differently
C1_Witness ==
    /\ call.returned /\ Out.regressed
    /\ TsOf(ArgA) = (1..MaxT) \ {4}
    /\ TsOf(ArgB) = (1..MaxT) \ {3}
    /\ TsOf(Out.merged) = (1..MaxT) \ {3, 4}
    /\ \E i \in 1..Len(Out.merged) : ArgB[i].v # Out.merged[i].benchmark

\* C2: with fewer than 10 aligned rows the call yields no beta, r-squared or
\* correlation and the regression is not run; with 10 or more aligned rows the
\* sample floor refuses nothing and the regression is run.
C2_SampleFloor ==
    call.returned =>
        /\ AlignedN < 10 =>
              /\ IsNone(Out.beta) /\ IsNone(Out.r_squared) /\ IsNone(Out.correlation)
              /\ ~Out.regressed
        /\ AlignedN >= 10 => Out.regressed

\* nine aligned rows out of longer series: refused with the warning
C2_Witness ==
    /\ call.returned
    /\ AlignedN = 9
    /\ IsNone(Out.beta) /\ ~Out.regressed /\ Out.shown = "warning"

\* C3: when the aligned benchmark returns are all equal and there are at least
\* 10 aligned rows, the call fails: no numeric beta reaches the caller and the
\* regression error is shown.
C3_ConstantBenchmarkFails ==
    LET b == AlignedB
    IN  (call.returned /\ AlignedN >= 10 /\ \A i \in 1..Len(b) : b[i] = b[1]) =>
            /\ IsNone(Out.beta) /\ IsNone(Out.r_squared) /\ IsNone(Out.correlation)
            /\ Out.shown = "error"

\* a constant benchmark against a varying asset series, 10 rows or more
C3_Witness ==
    LET a == AlignedA
        b == AlignedB
    IN  /\ call.returned /\ AlignedN >= 10
        /\ \A i \in 1..Len(b) : b[i] = b[1]
        /\ \E i \in 1..Len(a) : a[i] # a[1]
        /\ IsNone(Out.beta) /\ Out.shown = "error"

\* C4: a returned beta equals Cov(a, b) / Var(b) over the aligned rows, a the
\* asset returns and b the benchmark returns.
C4_BetaIsCovOverVar ==
    Succeeded =>
        LET a == AlignedA
            b == AlignedB
        IN  Out.beta = RDiv(Cov(a, b), Cov(b, b))

\* a success where regressing b on a would have given another slope
C4_Witness ==
    /\ Succeeded
    /\ ~RIsZero(Out.beta)
    /\ LET a == AlignedA
           b == AlignedB
       IN  /\ ~RIsZero(Cov(a, a))
           /\ Out.beta # RDiv(Cov(a, b), Cov(a, a))

\* C5: in every returned result r_squared is the square of correlation, and
\* both are the Pearson coefficient of the aligned rows: correlation has the
\* sign of Cov(a, b) and r_squared is Cov(a, b)^2 / (Var(a) Var(b)) (0 when
\* the asset returns are constant).
C5_RSquaredIsCorrelationSquared ==
    Succeeded =>
        LET a == AlignedA
            b == AlignedB
            cab == Cov(a, b)
            va == Cov(a, a)
            vb == Cov(b, b)
        IN  /\ RootSq(Out.correlation) = Out.r_squared
            /\ Out.correlation[1] = (IF RIsZero(va) THEN 0 ELSE Sign(cab[1]))
            /\ Out.r_squared = (IF RIsZero(va) THEN Num(0)
                                ELSE RDiv(RMul(cab, cab), RMul(va, vb)))

\* a result with a negative correlation that is not perfect
C5_Witness ==
    /\ Succeeded
    /\ Out.correlation[1] = -1
    /\ RLt(Out.r_squared, Num(1))

\* --------------------------------------------------------- the two tabs
OnPortfolioTab == ~IsNone(portfolio_returns)
OnMFTab == ~IsNone(nav_returns_monthly)
HasMetrics == ~IsNone(metrics.alpha)
\* the asset and benchmark return series the metrics of the run were taken of
AssetReturns == IF OnPortfolioTab THEN portfolio_returns ELSE nav_returns_monthly
BenchReturns == IF OnPortfolioTab THEN benchmark_returns ELSE benchmark_returns_monthly
\* periods per year of a sampling frequency
PeriodsPerYear(freq) == IF freq = "M" THEN 12 ELSE 252
AssetValues == Values(AssetReturns.rows)

\* C6: whenever a beta was computed exactly one risk label is shown, by
\* half-open boundaries: low when beta < 0.8, moderate when 0.8 <= beta <
\* 1.2, high when beta >= 1.2, on the portfolio tab and on the fund tab alike;
\* without a beta no label is shown.
C6_RiskClassBoundaries ==
    LET b == result.beta
    IN  /\ IsNone(b) => risk_class = "none"
        /\ ~IsNone(b) =>
              /\ (5 * b[1] < 4 * b[2]) <=> (risk_class = "low")
              /\ (5 * b[1] >= 4 * b[2] /\ 5 * b[1] < 6 * b[2]) <=> (risk_class = "moderate")
              /\ (5 * b[1] >= 6 * b[2]) <=> (risk_class = "high")

\* a portfolio whose beta is exactly 0.8 is shown as moderate
C6_Witness ==
    /\ OnPortfolioTab
    /\ result.beta = <<4, 5>>
    /\ risk_class = "moderate"

\* C7: when the volatility of the asset returns is 0 (constant asset returns)
\* the Sharpe ratio is exactly 0, not NaN, on both tabs.
C7_SharpeZeroVolatility ==
    (HasMetrics /\ (\A i \in 1..Len(AssetValues) : AssetValues[i] = AssetValues[1])) =>
        /\ metrics.volatility = Root(0, Num(0))
        /\ metrics.sharpe_ratio = Root(0, Num(0))

\* a fund with a constant NAV against a moving benchmark
C7_Witness ==
    /\ OnMFTab /\ HasMetrics
    /\ \A i \in 1..Len(AssetValues) : AssetValues[i] = AssetValues[1]
    /\ \E i \in 1..Len(BenchReturns.rows) : BenchReturns.rows[i].v # Num(0)
    /\ metrics.sharpe_ratio = Root(0, Num(0))

\* C8: alpha = mean(asset) * P - beta * mean(benchmark) * P with one P, the
\* periods per year of the sampling frequency of both series: 252 on the
\* portfolio tab (daily returns), 12 on the fund tab (monthly returns).
C8_AlphaPeriods ==
    HasMetrics =>
        LET P == PeriodsPerYear(AssetReturns.freq)
        IN  /\ BenchReturns.freq = AssetReturns.freq
            /\ OnPortfolioTab => (AssetReturns.freq = "D" /\ P = 252)
            /\ OnMFTab => (AssetReturns.freq = "M" /\ P = 12)
            /\ metrics.alpha =
                  RSub(RMul(Mean(AssetReturns.rows), Num(P)),
                       RMul(result.beta, RMul(Mean(BenchReturns.rows), Num(P))))

\* a fund whose asset and benchmark terms are both non-zero
C8_Witness ==
    /\ OnMFTab /\ HasMetrics
    /\ ~RIsZero(metrics.mean_return)
    /\ ~RIsZero(metrics.mean_bench)
    /\ ~RIsZero(result.beta)
    /\ ~RIsZero(metrics.alpha)

\* C9: when volatility > 0 the Sharpe ratio is (annualizedReturn - 5) /
\* volatility, annualizedReturn being the annualised mean asset return that
\* enters alpha and volatility being annualised with the same periods per year.
C9_SharpeFormula ==
    (HasMetrics /\ RootGt0(metrics.volatility)) =>
        LET P == PeriodsPerYear(AssetReturns.freq)
            annualized == RMul(Mean(AssetReturns.rows), Num(P))
            excess == RSub(annualized, Num(5))
        IN  /\ metrics.alpha = RSub(annualized, RMul(result.beta, metrics.mean_bench))
            /\ RootSq(metrics.volatility) = RMul(SampleVar(AssetReturns.rows), Num(P))
            /\ metrics.sharpe_ratio[1] = Sign(excess[1])
            /\ RMul(RootSq(metrics.sharpe_ratio), RootSq(metrics.volatility))
                  = RMul(excess, excess)

\* a portfolio with a positive volatility and a non-zero Sharpe ratio
C9_Witness ==
    /\ OnPortfolioTab /\ HasMetrics
    /\ RootGt0(metrics.volatility)
    /\ metrics.sharpe_ratio[1] # 0

\* C10: volatility^2 = sampleVariance * periodsPerYear with the variance
\* taken with divisor n - 1; volatility is never negative and is 0 exactly
\* when all asset returns are equal.
C10_Volatility ==
    HasMetrics =>
        LET P == PeriodsPerYear(AssetReturns.freq)
            n == Len(AssetValues)
            sumsq == SumV([i \in 1..n |-> RMul(AssetValues[i], AssetValues[i])])
            sum == SumV(AssetValues)
            var == RDiv(RSub(sumsq, RDiv(RMul(sum, sum), Num(n))), Num(n - 1))
        IN  /\ RootSq(metrics.volatility) = RMul(var, Num(P))
            /\ metrics.volatility[1] \in {0, 1}
            /\ (metrics.volatility[1] = 0)
                  <=> (\A i \in 1..n : AssetValues[i] = AssetValues[1])

\* a fund with a positive volatility
C10_Witness ==
    /\ OnMFTab /\ HasMetrics
    /\ RootGt0(metrics.volatility)

\* C11: calculate_returns maps the prices p[1..m] to m - 1 returns carried at
\* the dates of p[2..m], in the same order, the i-th being
\* (p[i+1] - p[i]) / p[i] * 100; the first date carries no return.  A date
\* keeps its wall-clock value; the index of the result has no time zone.
C11_ReturnsFromPrices ==
    rcall.returned =>
        LET p == rcall.prices.rows
            r == rcall.out.rows
        IN  /\ Len(r) = Len(p) - 1
            /\ rcall.out.freq = rcall.prices.freq
            /\ rcall.out.tz = NAIVE
            /\ \A i \in 1..Len(r) :
                  /\ r[i].ts = p[i + 1].ts
                  /\ r[i].v[2] > 0
                  \* r * p[i] = (p[i+1] - p[i]) * 100, between integers
                  /\ r[i].v[1] * p[i].v[1] =
                        (p[i + 1].v[1] - p[i].v[1]) * 100 * r[i].v[2]

\* a call on three or more prices has returned, with a rise and a fall among
\* its returns and dates that are not consecutive
C11_Witness ==
    /\ rcall.returned
    /\ Len(rcall.out.rows) >= 2
    /\ \E i, j \in 1..Len(rcall.out.rows) :
          rcall.out.rows[i].v[1] > 0 /\ rcall.out.rows[j].v[1] < 0
    /\ rcall.out.rows[2].ts > rcall.out.rows[1].ts + 1
    /\ rcall.prices.tz = KOLKATA

\* C12: when the aligned asset returns are c times the aligned benchmark
\* returns, c # 0, and the regression succeeded (10 or more rows, benchmark
\* not constant), then beta = c, r_squared = 1 and correlation is +1 for
\* c > 0 and -1 for c < 0.
C12_PerfectCorrelation ==
    Succeeded =>
        LET a == AlignedA
            b == AlignedB
        IN  \A c \in (-4..4) \ {0} :
              (\A i \in 1..Len(a) : a[i] = RMul(Num(c), b[i])) =>
                  /\ Out.beta = Num(c)
                  /\ Out.r_squared = Num(1)
                  /\ Out.correlation = <<Sign(c), 1, 1>>

\* a call succeeded on an asset series that is -1 times a benchmark series
\* which lacks a timestamp and carries a NaN
C12_Witness ==
    /\ Succeeded
    /\ AlignedN < Len(ArgA)
    /\ \E t \in 1..Len(ArgB) : IsNaN(ArgB[t].v)
    /\ \A i \in 1..Len(AlignedA) : AlignedA[i] = RMul(Num(-1), AlignedB[i])
    /\ Out.correlation = <<-1, 1, 1>>

\* the kind of a failed call: the regression raised on a benchmark without
\* variance, or the call stopped before it for want of overlapping samples
FailureKind(out) == IF out.regressed THEN "degenerate" ELSE "insufficient"
\* the kind the caller's message names: "Could not calculate beta.
\* Insufficient data overlap."
CallerMessageKind == "insufficient"

\* C13: when the beta calculation of a tab fails, the message the tab shows
\* names the kind of failure that occurred (insufficient overlapping samples
\* or a benchmark without variance).
C13_FailureTyped ==
    (call.returned /\ IsNone(result.beta) /\ "err_beta" \in shown) =>
        CallerMessageKind = FailureKind(call.out)

\* C14: when calculate_beta returns no beta for the portfolio series or the
\* fund series, the run shows the error message, has no alpha, volatility,
\* Sharpe ratio or risk class, draws no chart, runs no holdings analysis, and
\* is at its end.
C14_BetaFailureShowsErrorOnly ==
    ((OnPortfolioTab \/ OnMFTab) /\ IsNone(result.beta)) =>
        /\ "err_beta" \in shown
        /\ metrics = NoMetrics
        /\ risk_class = "none"
        /\ page = {}
        /\ holdings_info = None
        /\ pc = "done"

\* a fund analysis has ended without a beta, calculate_beta having refused
\* the series for want of overlapping rows
C14_Witness ==
    /\ OnMFTab /\ IsNone(result.beta)
    /\ pc = "done"
    /\ trigger = "mf_button"
    /\ shown = {"warn_overlap", "err_beta"}

\* what a call returns and writes when it runs alone on the values its
\* arguments had when it was made
Alone(f) ==
    IF f.fn = "calculate_beta"
    THEN LET o == calculate_beta(f.given[1], f.given[2])
         IN  [out |-> ResultOf(o), shown |-> CallShown(o)]
    ELSE [out |-> calculate_returns(f.given[1]), shown |-> {}]
Frames == {procs.frame[p] : p \in DOMAIN procs.frame}
InputsUnchanged ==
    \A p \in DOMAIN procs.frame :
        \A i \in 1..Len(procs.frame[p].args) : Arg(procs, p, i) = procs.frame[p].given[i]

\* C15: two calls of calculate_beta made with equal arguments have returned
\* the same outcome (the same three values, the same message), whatever other
\* calls ran before, between or during them.
C15_Deterministic ==
    \A p, q \in DOMAIN procs.frame :
        (/\ procs.frame[p].fn = "calculate_beta" /\ procs.frame[q].fn = "calculate_beta"
         /\ procs.frame[p].pc = "returned" /\ procs.frame[q].pc = "returned"
         /\ procs.frame[p].given = procs.frame[q].given) =>
            /\ procs.frame[p].out = procs.frame[q].out
            /\ procs.frame[p].shown = procs.frame[q].shown

\* two calls with equal arguments have returned a beta, and another call of
\* calculate_beta on other arguments has returned a different one
C15_Witness ==
    \E p, q, r \in DOMAIN procs.frame :
        /\ p # q /\ r # p /\ r # q
        /\ \A c \in {p, q, r} :
              procs.frame[c].fn = "calculate_beta" /\ procs.frame[c].pc = "returned"
        /\ procs.frame[p].given = procs.frame[q].given
        /\ procs.frame[p].out # NoResult
        /\ procs.frame[r].given # procs.frame[p].given

C17_Ranges ==
    /\ Succeeded =>
          /\ ~RLt(Out.r_squared, Num(0)) /\ ~RLt(Num(1), Out.r_squared)
          /\ Out.correlation # NaNRoot
          /\ ~RLt(Num(1), RootSq(Out.correlation))
    /\ HasMetrics =>
          /\ metrics.volatility # NaNRoot
          /\ metrics.volatility[1] >= 0
          /\ ~RLt(RootSq(metrics.volatility), Num(0))

\* a run has metrics with a correlation strictly between -1 and 0 and a
\* volatility above 0
C17_Witness ==
    /\ HasMetrics
    /\ result.correlation[1] = -1
    /\ RLt(Num(0), result.r_squared) /\ RLt(result.r_squared, Num(1))
    /\ RootGt0(metrics.volatility)

\* C18: for inputs with strictly increasing timestamps, the aligned rows are
\* in strictly increasing timestamp order without a repeated timestamp, and
\* the number of rows compared with the floor of 10 is the number of common
\* timestamps with a value on both sides.
C18_AlignedOrdered ==
    (call.returned /\ ~TooShort(call.returns, call.benchmark_returns)) =>
        LET m == Out.merged
        IN  /\ \A i \in 1..(Len(m) - 1) : m[i].ts < m[i + 1].ts
            /\ Len(m) = AlignedN
            /\ Out.regressed <=> AlignedN >= MIN_SAMPLES
            /\ (Out.shown = "warning") <=> AlignedN < MIN_SAMPLES

\* a call has returned whose inputs share fewer timestamps than either has,
\* one of them carrying a NaN, and exactly 10 rows were aligned
C18_Witness ==
    /\ call.returned /\ Out.regressed
    /\ Len(Out.merged) = MIN_SAMPLES
    /\ Len(ArgA) > MIN_SAMPLES /\ Len(ArgB) > MIN_SAMPLES
    /\ \E i \in 1..Len(ArgB) : IsNaN(ArgB[i].v)

\* C19: once a script run has started, session_state.results exists and is
\* None, whatever interactions follow; between two runs no beta, metric or
\* risk class of the finished run is left for the next one.
C19_NoResultCarried ==
    /\ (pc # "idle" /\ pc # "rerun") => "results" \in DOMAIN session_state
    /\ "results" \in DOMAIN session_state => session_state["results"] = None
    /\ pc = "idle" =>
          /\ result = NoResult /\ metrics = NoMetrics /\ risk_class = "none"
          /\ call = NoCall /\ holdings_info = None

\* a fund analysis with metrics and a holdings analysis has ended, the page
\* in the browser offers the upload widget, no local of the run is left, and
\* the session holds results = None
C19_Witness ==
    /\ pc = "idle"
    /\ "holdings_csv" \in page
    /\ result = NoResult /\ metrics = NoMetrics
    /\ "results" \in DOMAIN session_state
    /\ session_state["results"] = None

\* C20: the run started by the upload of a valid holdings CSV, after a fund
\* analysis put the upload widget on the page, analyses the uploaded
\* holdings: holdings_info has the source 'Uploaded CSV' and the holdings of
\* the file.
C20_UploadGivesAnalysis ==
    (/\ pc = "done" /\ trigger = "upload"
     /\ WidgetValue(session_state, "holdings_csv") = ValidCsv) =>
        /\ ~IsNone(holdings_info)
        /\ holdings_info.source = "Uploaded CSV"
        /\ holdings_info.holdings =
              <<<<"RELIANCE", Rat(85, 10)>>, <<"TCS", Rat(72, 10)>>>>

\* the lines of a file that carry a holding: a first field that is a ticker
\* and a second field that spells a number above 0
IsHoldingLine(line) ==
    /\ Len(line) >= 2
    /\ line[1] # NA /\ StripUpper(line[1]) # ""
    /\ ~IsNaN(ToNumeric(line[2])) /\ RLt(Num(0), ToNumeric(line[2]))
HoldingLines(file) == SelectSeq(file.lines, IsHoldingLine)
\* the lines whose second field is missing, no number, or a number not above 0
IsDroppedLine(line) ==
    Len(line) < 2 \/ IsNaN(ToNumeric(line[2])) \/ ~RLt(Num(0), ToNumeric(line[2]))
\* a file of holding lines and of lines to drop only
OnlyHoldingOrDropped(file) ==
    \A i \in 1..Len(file.lines) :
        IsHoldingLine(file.lines[i]) \/ IsDroppedLine(file.lines[i])

\* C21: the holdings the CSV branch makes of an uploaded file are its holding
\* lines, one (upper-case trimmed ticker, weight) per line in file order,
\* whether or not the first line is a header and whatever further columns the
\* file has; lines with a weight that is no number or not above 0 give no
\* holding, and a file without a holding line gives no holdings.
C21_CsvRowsBecomeHoldings ==
    (fcall.fn = "csv_branch" /\ fcall.returned /\ OnlyHoldingOrDropped(fcall.arg)) =>
        LET expected == HoldingLines(fcall.arg)
        IN  IF expected = <<>> THEN IsNone(fcall.out)
            ELSE /\ ~IsNone(fcall.out)
                 /\ fcall.out.source = "Uploaded CSV"
                 /\ fcall.out.holdings =
                       [i \in 1..Len(expected) |->
                           <<StripUpper(expected[i][1]), ToNumeric(expected[i][2])>>]

\* the events of a run that are fetches of market data
FetchEvents == {"fetch_index_data", "fetch_stock_data", "fetch_mf_nav",
                "fetch_live_stock_price"}
Fetched == {i \in 1..Len(events) : events[i] \in FetchEvents}
TotalAllocation == SumAllocation(stocks_data)

KnownCodes == {"147844", "119551", "120503"}
\* an uploaded file with a header line, two columns or more, and a holding
\* line without an empty cell
HasPositiveRow(file) ==
    /\ ~IsNone(file)
    /\ Len(file.lines) >= 2 /\ Len(file.lines[1]) >= 2
    /\ \E i \in 2..Len(file.lines) :
          /\ IsHoldingLine(file.lines[i])
          /\ \A k \in 3..Len(file.lines[i]) : file.lines[i][k] # NA

RegressionRows == call.out.merged

\* C24: in a run that has metrics, the mean asset return and the mean
\* benchmark return that enter alpha are the annualised means of the asset
\* column and of the benchmark column of the aligned rows the beta
\* regression ran on.
C24_MeansOverAlignedRows ==
    HasMetrics =>
        LET m == RegressionRows
            P == PeriodsPerYear(AssetReturns.freq)
        IN  /\ metrics.mean_return =
                  RMul(MeanV([i \in 1..Len(m) |-> m[i].returns]), Num(P))
            /\ metrics.mean_bench =
                  RMul(MeanV([i \in 1..Len(m) |-> m[i].benchmark]), Num(P))

\* the latest call of fetch_mf_nav has returned
NavReturned == fcall.fn = "fetch_mf_nav" /\ fcall.returned

\* C25: every row of the NAV table fetch_mf_nav returns carries a date of the
\* period start_date..end_date, whether the table comes from the history or
\* from the current NAV of the AMFI list.
C25_NavWithinPeriod ==
    (NavReturned /\ ~IsNone(fcall.out.nav_df)) =>
        \A i \in 1..Len(fcall.out.nav_df.rows) :
            /\ fcall.out.nav_df.rows[i].ts >= fcall.arg.start_date
            /\ fcall.out.nav_df.rows[i].ts <= fcall.arg.end_date

\* the keys of a scheme-info record
InfoKeys == {"scheme_name", "fund_house", "scheme_type", "scheme_category"}
\* the AMFI list was read and has no line with the code
CodeAbsent ==
    /\ fcall.arg.amfi.status = "ok"
    /\ \A i \in 1..Len(fcall.arg.amfi.lines) :
          fcall.arg.amfi.lines[i].code # fcall.arg.amfi_code

\* C26: fetch_mf_nav returns (None, None), or a NAV table with at least one
\* row together with a scheme-info record of exactly the keys scheme_name,
\* fund_house, scheme_type and scheme_category; never one of the two without
\* the other; no exception leaves it; and it returns (None, None) when the
\* AMFI list has no line with the code.
C26_NavReturnShape ==
    NavReturned =>
        LET out == fcall.out
        IN  /\ out.raised = "none"
            /\ IsNone(out.nav_df) <=> IsNone(out.scheme_info)
            /\ ~IsNone(out.nav_df) =>
                  /\ out.nav_df.rows # <<>>
                  /\ DOMAIN out.scheme_info = InfoKeys
            /\ CodeAbsent => (IsNone(out.nav_df) /\ IsNone(out.scheme_info))

\* the history had no record in the period and the call returned the current
\* NAV of the AMFI list with its scheme-info
C26_Witness ==
    /\ NavReturned
    /\ fcall.arg.hist.data # <<>>
    /\ "warn_only_current" \in shown
    /\ ~IsNone(fcall.out.nav_df)
    /\ fcall.out.scheme_info.fund_house = "N/A"

RECURSIVE IsSubSeq(_, _)
\* sub is seq with some elements left out
IsSubSeq(sub, seq) ==
    IF sub = <<>> THEN TRUE
    ELSE IF seq = <<>> THEN FALSE
    ELSE IF Head(sub) = Head(seq) THEN IsSubSeq(Tail(sub), Tail(seq))
    ELSE IsSubSeq(sub, Tail(seq))

\* one pass of the portfolio loop, from the state before it to the state
\* after it
C27_LoopPass ==
    (pc = "portfolio_loop" /\ idx' = idx + 1) =>
        LET stock == stocks_data[idx + 1]
            N == Len(stocks_data)
            fetched == events' = events \o <<"fetch_stock_data", "calculate_beta">>
            computed == fetched /\ ~IsNone(call'.out.beta)
        IN  /\ fetched \/ events' = Append(events, "fetch_stock_data")
            /\ fetched => call'.benchmark_returns = benchmark_returns
            /\ IF computed
               THEN /\ valid_stocks' = Append(valid_stocks, stock)
                    /\ Len(stock_betas') = Len(stock_betas) + 1
                    /\ stock_betas'[Len(stock_betas')].Symbol = stock.Symbol
                    /\ stock_betas'[Len(stock_betas')].Beta = call'.out.beta
                    /\ all_stock_returns' =
                          Append(all_stock_returns,
                                 Weighted(call'.returns, stock.Allocation))
               ELSE UNCHANGED <<valid_stocks, stock_betas, all_stock_returns>>
            /\ Len(stock_betas') = Len(valid_stocks')
            /\ Len(all_stock_returns') = Len(valid_stocks')
            /\ \A i \in 1..Len(valid_stocks') :
                  stock_betas'[i].Symbol = valid_stocks'[i].Symbol
            /\ IsSubSeq(valid_stocks', stocks_data)
            /\ progress' = Rat(idx + 1, N)
            /\ (progress' = Num(1)) <=> (idx + 1 = N)

\* C27: every pass of the portfolio loop leaves stock_betas,
\* all_stock_returns and valid_stocks equally long, listing the same stocks
\* in input order; the pass adds its stock to the three lists exactly when
\* the stock's prices were fetched non-empty and its beta was computed; and
\* the progress value after the k-th of N stocks is k/N, which is 1 after
\* the last stock only.
C27_LoopLists == [][C27_LoopPass]_vars

\* the loop has processed two stocks: the first is in none of the lists, the
\* second in all three, and the progress value is 1
C27_Witness ==
    /\ pc = "portfolio_loop"
    /\ idx = 2 /\ Len(stocks_data) = 2
    /\ valid_stocks = <<stocks_data[2]>>
    /\ Len(stock_betas) = 1 /\ stock_betas[1].Symbol = stocks_data[2].Symbol
    /\ Len(all_stock_returns) = 1
    /\ progress = Num(1)

\* the order of the steps of a fund analysis
MFOrder == <<"fetch_mf_nav", "fetch_index_data", "calculate_beta",
             "scrape_mf_holdings_moneycontrol">>

====
